---- MODULE Spec2Model ----
(***************************************************************************)
(* A model of the PDF intelligence system: outline extraction (round 1A)   *)
(* and persona-driven relevance ranking (round 1B).                        *)
(*                                                                         *)
(* Texts are sequences of one-character strings, so that the regular       *)
(* expressions and substring tests of the program are computed on the      *)
(* characters.  Confidences are integers in hundredths, relevance scores   *)
(* integers in units of 1/ScoreScale.                                      *)
(*                                                                         *)
(* Each component has its own variables and its own specification; the     *)
(* variables of the other components stay at their initial values.         *)
(***************************************************************************)
EXTENDS Integers, Sequences, FiniteSets, TLC

VARIABLES
  \* TextProcessor (heading classifier)
  classifier,   \* TextProcessor.classifier is loaded (not None)
  hText,        \* the text of the is_heading_ml call in progress
  hAnswer,      \* what the external classifier does in that call
  hResult,      \* the (is_heading, confidence) pair returned
  hCalled,      \* is_heading_ml has returned to a caller that holds the pair
  \* PersonaProcessor
  pPersona,     \* the persona text of the process_persona call
  pJob,         \* the job text of that call
  pNlp,         \* TextProcessor.nlp: the spaCy pipeline, if one is loaded
  pProfile,     \* the persona profile returned
  pCalled,      \* process_persona has returned to a caller that holds the profile
  \* OutlineExtractor / MLOutlineExtractor
  pymupdf,      \* PYMUPDF_AVAILABLE: the import of fitz succeeded
  oExtractor,   \* which extractor's extract_outline is called
  oPath,        \* the file_path argument
  oFile,        \* what the file system and PyMuPDF give for that path
  oAnswers,     \* what the external classifier answers for each text
  oFault,       \* the step of the extraction at which an exception is raised
  oResult,      \* the value extract_outline returned
  oRaised,      \* an exception left extract_outline
  oCalled,      \* extract_outline has finished
  \* the outline builders
  bBuilder,     \* which builder is called
  bHeadings,    \* the detected headings handed to it
  bOutline,     \* the outline it returned
  bCalled,      \* the builder has returned
  \* the relevance scorers
  sRanker,        \* which ranker's scorer is called
  sSection,       \* the section scored
  sProfile,       \* the persona profile it is scored against
  sSentenceModel, \* what the sentence model does when asked for a similarity
  sNlp,           \* what the spaCy model does when asked for a similarity
  sScore,         \* the relevance score returned
  sRaised,        \* a ZeroDivisionError left the scorer
  sCalled,        \* the scorer has finished
  \* the rankers and the document analyzer
  rRanker,      \* the object whose sections are ranked
  rSections,    \* the sections handed to it, in extraction order
  rRanked,      \* the ranked sections rank_sections returned to a call that completed
  rScenario,    \* the request of the calls of analyze_documents and what fails in them
  rResult,      \* the result of analyze_documents
  rRaised,      \* an exception left analyze_documents
  rCalled,      \* analyze_documents has been called
  rAnswers,     \* what the sentence model answers for the sections of a title
  \* main.process_round1b
  mInput,       \* the input path of the run and what the file system holds there
  mRun,         \* what the run printed, called and wrote
  mCalled,      \* process_round1b has finished
  \* SectionExtractor
  xPath,        \* the pdf_path of the extract_sections call
  xFile,        \* what the file system and PyMuPDF give for that path
  xSections,    \* the sections extract_sections returned
  xCalled,      \* extract_sections has returned
  \* DocumentAnalyzer.analyze_documents, step by step
  aFiles,       \* pdf_files
  aFault,       \* the step of the call at which an exception is raised
  aPc,          \* the place of the call in analyze_documents
  aProfile,     \* persona_profile
  aNext,        \* the position in pdf_files of the next file of the loop
  aAll,         \* all_sections
  aExtracted,   \* the files extract_sections was called on, in the order of the calls
  aRankInputs,  \* the lists rank_sections was called on, in the order of the calls
  aRanked,      \* ranked_sections
  aResult,      \* the value analyze_documents returned
  \* TextProcessor: its construction and its similarity calls
  tImports,     \* SPACY_AVAILABLE, TRANSFORMERS_AVAILABLE, SENTENCE_TRANSFORMERS_AVAILABLE
  tLoads,       \* what the loading of each model does in __init__
  tPc,          \* the processor is being constructed, constructed, or in use
  tNlp,         \* TextProcessor.nlp is loaded (not None)
  tSentenceModel, \* TextProcessor.sentence_model is loaded (not None)
  tCall,        \* the calculate_text_similarity call in progress and its result
  \* DocumentAnalyzer._refine_subsection_text
  fContent,     \* the content of the sub-section
  fProfile,     \* the persona profile it is refined for
  fRefined,     \* the refined text returned
  fCalled       \* _refine_subsection_text has returned

headingVars == <<classifier, hText, hAnswer, hResult, hCalled>>

personaVars == <<pPersona, pJob, pNlp, pProfile, pCalled>>

outlineVars ==
  <<pymupdf, oExtractor, oPath, oFile, oAnswers, oFault, oResult, oRaised, oCalled>>

builderVars == <<bBuilder, bHeadings, bOutline, bCalled>>

scoreVars ==
  <<sRanker, sSection, sProfile, sSentenceModel, sNlp, sScore, sRaised, sCalled>>

rankVars == <<rRanker, rSections, rRanked, rScenario, rResult, rRaised, rCalled, rAnswers>>

mainVars == <<mInput, mRun, mCalled>>

sectionVars == <<xPath, xFile, xSections, xCalled>>

batchVars ==
  <<aFiles, aFault, aPc, aProfile, aNext, aAll, aExtracted, aRankInputs, aRanked, aResult>>

processorVars == <<tImports, tLoads, tPc, tNlp, tSentenceModel, tCall>>

refineVars == <<fContent, fProfile, fRefined, fCalled>>

vars ==
  <<headingVars, personaVars, outlineVars, builderVars, scoreVars, rankVars, mainVars,
    sectionVars, batchVars, processorVars, refineVars>>

\* what the calls of one component leave alone
exceptHeading ==
  <<personaVars, outlineVars, builderVars, scoreVars, rankVars, mainVars, sectionVars,
    batchVars, processorVars, refineVars>>

exceptPersona ==
  <<headingVars, outlineVars, builderVars, scoreVars, rankVars, mainVars, sectionVars,
    batchVars, processorVars, refineVars>>

exceptOutline ==
  <<hText, hAnswer, hResult, hCalled, personaVars, builderVars, scoreVars, rankVars,
    mainVars, sectionVars, batchVars, processorVars, refineVars>>

exceptBuilder ==
  <<headingVars, personaVars, outlineVars, scoreVars, rankVars, mainVars, sectionVars,
    batchVars, processorVars, refineVars>>

exceptScore ==
  <<headingVars, personaVars, outlineVars, builderVars, rankVars, mainVars, sectionVars,
    batchVars, processorVars, refineVars>>

exceptRank ==
  <<headingVars, personaVars, outlineVars, builderVars, scoreVars, mainVars, sectionVars,
    batchVars, processorVars, refineVars>>

exceptMain ==
  <<headingVars, personaVars, outlineVars, builderVars, scoreVars, rankVars, sectionVars,
    batchVars, processorVars, refineVars>>

exceptSections ==
  <<headingVars, personaVars, outlineVars, builderVars, scoreVars, rankVars, mainVars,
    batchVars, processorVars, refineVars>>

exceptBatch ==
  <<headingVars, personaVars, outlineVars, builderVars, scoreVars, rankVars, mainVars,
    sectionVars, processorVars, refineVars>>

exceptProcessor ==
  <<hText, hAnswer, hResult, hCalled, personaVars, outlineVars, builderVars, scoreVars,
    rankVars, mainVars, sectionVars, batchVars, refineVars>>

exceptRefine ==
  <<headingVars, personaVars, outlineVars, builderVars, scoreVars, rankVars, mainVars,
    sectionVars, batchVars, processorVars>>
(***************************************************************************)
(* Characters and the string operations of Python the program uses.        *)
(***************************************************************************)
UpperSeq ==
  <<"A", "B", "C", "D", "E", "F", "G", "H", "I", "J", "K", "L", "M",
    "N", "O", "P", "Q", "R", "S", "T", "U", "V", "W", "X", "Y", "Z">>

LowerSeq ==
  <<"a", "b", "c", "d", "e", "f", "g", "h", "i", "j", "k", "l", "m",
    "n", "o", "p", "q", "r", "s", "t", "u", "v", "w", "x", "y", "z">>

Upper == {UpperSeq[i] : i \in 1..Len(UpperSeq)}

Lower == {LowerSeq[i] : i \in 1..Len(LowerSeq)}

Letters == Upper \cup Lower

Digits == {"0", "1", "2", "3", "4", "5", "6", "7", "8", "9"}

\* \s of the re module
Whitespace == {" ", "\t", "\n"}

\* \w of the re module
WordChars == Letters \cup Digits \cup {"_"}

Max(a, b) == IF a >= b THEN a ELSE b

Min(a, b) == IF a <= b THEN a ELSE b

LowerChar(c) ==
  IF c \in Upper THEN LowerSeq[CHOOSE i \in 1..Len(UpperSeq) : UpperSeq[i] = c] ELSE c

\* str.lower()
lower(s) == [i \in 1..Len(s) |-> LowerChar(s[i])]

\* str.strip()
strip(s) ==
  LET keep == {i \in 1..Len(s) : s[i] \notin Whitespace}
  IN IF keep = {} THEN <<>>
     ELSE SubSeq(s, CHOOSE i \in keep : \A j \in keep : i <= j,
                    CHOOSE i \in keep : \A j \in keep : i >= j)

\* p in t
contains(t, p) ==
  IF Len(p) = 0 THEN TRUE
  ELSE \E i \in 1..(Len(t) - Len(p) + 1) :
         t[i] = p[1] /\ SubSeq(t, i, i + Len(p) - 1) = p

\* str.startswith(p)
startswith(s, p) == Len(s) >= Len(p) /\ SubSeq(s, 1, Len(p)) = p

\* str.endswith(c) for a single character c
endswith(s, c) == Len(s) > 0 /\ s[Len(s)] = c

\* str.count(c) for a single character c
count(s, c) == Cardinality({i \in 1..Len(s) : s[i] = c})

\* the index after the longest run of characters of cls that starts at i
RECURSIVE RunEnd(_, _, _)
RunEnd(s, i, cls) ==
  IF i <= Len(s) /\ s[i] \in cls THEN RunEnd(s, i + 1, cls) ELSE i

\* str.split(): the maximal runs of non-whitespace characters
RECURSIVE split(_)
split(s) ==
  LET a == RunEnd(s, 1, Whitespace)
      b == RunEnd(s, a, {s[k] : k \in 1..Len(s)} \ Whitespace)
  IN IF a > Len(s) THEN <<>>
     ELSE <<SubSeq(s, a, b - 1)>> \o split(SubSeq(s, b, Len(s)))

\* str.isupper(): a cased character exists and no cased character is lower case
isupper(s) ==
  /\ \E i \in 1..Len(s) : s[i] \in Upper
  /\ \A i \in 1..Len(s) : s[i] \notin Lower

\* the maximal runs of characters of cls in s
RECURSIVE Runs(_, _)
Runs(s, cls) ==
  LET a == RunEnd(s, 1, {s[k] : k \in 1..Len(s)} \ cls)
      b == RunEnd(s, a, cls)
  IN IF a > Len(s) THEN <<>>
     ELSE <<SubSeq(s, a, b - 1)>> \o Runs(SubSeq(s, b, Len(s)), cls)

\* re.findall(r'\b\w+\b', text)
findall_words(text) == Runs(text, WordChars)

(***************************************************************************)
(* TextProcessor: the heading classifier.                                  *)
(***************************************************************************)
\* r'^-\s', r'^\*\s', r'^\•\s'
BulletStart(t) == Len(t) >= 2 /\ t[1] \in {"-", "*", "BULLET"} /\ t[2] \in Whitespace

\* r'^[a-z]'
LowerStart(t) == Len(t) >= 1 /\ t[1] \in Lower

\* r'\.$'
PeriodEnd(t) == endswith(t, ".")

\* r'[,;:]$'
PunctEnd(t) == Len(t) > 0 /\ t[Len(t)] \in {",", ";", ":"}

\* r'^\d+\)\s'
ParenNumberStart(t) ==
  LET a == RunEnd(t, 1, Digits)
  IN a > 1 /\ a + 1 <= Len(t) /\ t[a] = ")" /\ t[a + 1] \in Whitespace

\* exclude_patterns of is_heading_ml
MlExcluded(t) == BulletStart(t) \/ PeriodEnd(t) \/ LowerStart(t)

\* exclude_patterns of _is_heading_rule_based
RuleExcluded(t) ==
  \/ BulletStart(t)
  \/ ParenNumberStart(t)
  \/ LowerStart(t)
  \/ PeriodEnd(t)
  \/ PunctEnd(t)

NoPeriodFrom(t, i) == \A k \in i..Len(t) : t[k] # "."

\* r'^\d+\.\s*[A-Z][^.]*$' with re.IGNORECASE
NumberedStrong(t) ==
  LET a == RunEnd(t, 1, Digits)
      b == RunEnd(t, a + 1, Whitespace)
  IN /\ a > 1 /\ a <= Len(t) /\ t[a] = "."
     /\ b <= Len(t) /\ t[b] \in Letters
     /\ NoPeriodFrom(t, b + 1)

\* r'^\d+\.\d+\s*[A-Z][^.]*$' with re.IGNORECASE
SubNumberedStrong(t) ==
  LET a == RunEnd(t, 1, Digits)
      c == RunEnd(t, a + 1, Digits)
      b == RunEnd(t, c, Whitespace)
  IN /\ a > 1 /\ a <= Len(t) /\ t[a] = "."
     /\ c > a + 1
     /\ b <= Len(t) /\ t[b] \in Letters
     /\ NoPeriodFrom(t, b + 1)

StructuralKeywords ==
  { <<"c", "h", "a", "p", "t", "e", "r">>,
    <<"s", "e", "c", "t", "i", "o", "n">>,
    <<"p", "a", "r", "t">> }

\* r'^(Chapter|Section|Part)\s+\d+' with re.IGNORECASE
StructuralStrong(t) ==
  \E k \in StructuralKeywords :
    LET b == RunEnd(t, Len(k) + 1, Whitespace)
    IN /\ startswith(lower(t), k)
       /\ b > Len(k) + 1
       /\ b <= Len(t) /\ t[b] \in Digits

CanonicalNames ==
  { <<"i", "n", "t", "r", "o", "d", "u", "c", "t", "i", "o", "n">>,
    <<"c", "o", "n", "c", "l", "u", "s", "i", "o", "n">>,
    <<"s", "u", "m", "m", "a", "r", "y">>,
    <<"a", "b", "s", "t", "r", "a", "c", "t">>,
    <<"m", "e", "t", "h", "o", "d", "o", "l", "o", "g", "y">>,
    <<"r", "e", "s", "u", "l", "t", "s">>,
    <<"d", "i", "s", "c", "u", "s", "s", "i", "o", "n">> }

\* r'^(Introduction|Conclusion|...|Discussion)$' with re.IGNORECASE
CanonicalStrong(t) == lower(t) \in CanonicalNames

\* [A-Z][a-z]+
TitleWord(w) == Len(w) >= 2 /\ w[1] \in Upper /\ \A i \in 2..Len(w) : w[i] \in Lower

\* r'^[A-Z][a-z]+(?:\s+[A-Z][a-z]+){0,4}$'
TitleCaseMedium(t) ==
  LET words == split(t)
  IN /\ Len(t) > 0 /\ t[1] \notin Whitespace /\ t[Len(t)] \notin Whitespace
     /\ Len(words) \in 1..5
     /\ \A i \in 1..Len(words) : TitleWord(words[i])

\* r'^[A-Z\s]{3,20}$'
AllCapsMedium(t) ==
  Len(t) \in 3..20 /\ \A i \in 1..Len(t) : t[i] \in Upper \cup Whitespace

\* heading_words
HeadingWords ==
  { <<"i", "n", "t", "r", "o", "d", "u", "c", "t", "i", "o", "n">>,
    <<"c", "o", "n", "c", "l", "u", "s", "i", "o", "n">>,
    <<"s", "u", "m", "m", "a", "r", "y">>,
    <<"a", "b", "s", "t", "r", "a", "c", "t">>,
    <<"o", "v", "e", "r", "v", "i", "e", "w">>,
    <<"b", "a", "c", "k", "g", "r", "o", "u", "n", "d">> }

\* the pattern score: the largest score of a matching strong or medium pattern
PatternConfidence(t) ==
  LET s1 == IF NumberedStrong(t) THEN 95 ELSE 0
      s2 == IF SubNumberedStrong(t) THEN 90 ELSE 0
      s3 == IF StructuralStrong(t) THEN 95 ELSE 0
      s4 == IF CanonicalStrong(t) THEN 90 ELSE 0
      m1 == IF TitleCaseMedium(t) THEN 70 ELSE 0
      m2 == IF AllCapsMedium(t) THEN 60 ELSE 0
  IN Max(Max(Max(s1, s2), Max(s3, s4)), Max(m1, m2))

NotHeading == [is_heading |-> FALSE, confidence |-> 0]

\* TextProcessor._is_heading_rule_based; confidences are in hundredths
is_heading_rule_based(text) ==
  LET t == strip(text)
      lengthBonus == IF 5 <= Len(t) /\ Len(t) <= 60 /\ ~endswith(t, ".") THEN 10 ELSE 0
      wordBonus == IF \E hw \in HeadingWords : contains(lower(t), hw) THEN 20 ELSE 0
      confidence == PatternConfidence(t) + lengthBonus + wordBonus
  IN IF Len(text) = 0 \/ Len(t) < 3 THEN NotHeading
     ELSE IF RuleExcluded(t) THEN NotHeading
     ELSE [is_heading |-> confidence >= 65, confidence |-> Min(confidence, 100)]

\* What a call of the external classifier does: it raises, it returns an
\* empty result, or it returns class scores whose maximum is `score`.
ClassifierScores == {50, 75, 76, 90, 100}

ClassifierAnswers ==
  {[kind |-> "raise", score |-> 0], [kind |-> "empty", score |-> 0]}
    \cup {[kind |-> "score", score |-> c] : c \in ClassifierScores}

NoAnswer == [kind |-> "empty", score |-> 0]

\* is_heading_ml without the handler of the classifier call: a call in
\* which the classifier raises gives no heading
is_heading_ml_unguarded(text, loaded, answer) ==
  LET t == strip(text)
  IN IF Len(text) = 0 THEN NotHeading
     ELSE IF MlExcluded(t) THEN NotHeading
     ELSE IF loaded
     THEN IF answer.kind = "score"
          THEN [is_heading |-> answer.score > 75, confidence |-> answer.score]
          ELSE NotHeading
     ELSE is_heading_rule_based(t)

\* TextProcessor.is_heading_ml with the classifier loaded or not
is_heading_ml(text, loaded, answer) ==
  LET t == strip(text)
  IN IF Len(text) = 0 THEN NotHeading
     ELSE IF MlExcluded(t) THEN NotHeading
     ELSE IF loaded /\ answer.kind = "score"
          THEN [is_heading |-> answer.score > 75, confidence |-> answer.score]
     ELSE is_heading_rule_based(t)

(***************************************************************************)
(* The fragments handed to the heading classifier: a prefix, a body and a  *)
(* suffix.                                                                 *)
(***************************************************************************)
HeadingPrefixes ==
  { <<>>,
    <<"-", " ">>,
    <<"*", " ">>,
    <<"BULLET", " ">>,
    <<"1", ")", " ">>,
    <<"1", ".", " ">>,
    <<"1", ".", "1", " ">>,
    <<"1", ".", "2", ".", "3", ".", " ">>,
    <<"C", "h", "a", "p", "t", "e", "r", " ", "1", " ">> }

HeadingBodies ==
  { <<"I", "n", "t", "r", "o", "d", "u", "c", "t", "i", "o", "n">>,
    <<"s", "e", "e", " ", "a", "p", "p", "e", "n", "d", "i", "x">>,
    <<"R", "E", "S", "U", "L", "T", "S">>,
    <<"D", "a", "t", "a", " ", "S", "e", "t">>,
    <<"O", "f">> }

HeadingSuffixes == { <<>>, <<".">>, <<",">>, <<";">>, <<":">> }

HeadingTexts ==
  {p \o b \o s : p \in HeadingPrefixes, b \in HeadingBodies, s \in HeadingSuffixes}

(***************************************************************************)
(* Calls of is_heading_ml on one TextProcessor.                            *)
(***************************************************************************)


HeadingIdle ==
  /\ hText = <<>>
  /\ hAnswer = NoAnswer
  /\ hResult = NotHeading
  /\ hCalled = FALSE

CallIsHeadingMl ==
  \E text \in HeadingTexts, answer \in ClassifierAnswers :
    /\ hCalled = FALSE
    /\ hText' = text
    /\ hAnswer' = answer
    /\ hResult' = is_heading_ml(text, classifier, answer)
    /\ hCalled' = TRUE
    /\ UNCHANGED classifier
    /\ UNCHANGED exceptHeading

\* the caller has used the pair; the processor is ready for the next call
ReturnIsHeadingMl ==
  /\ hCalled = TRUE
  /\ hText' = <<>>
  /\ hAnswer' = NoAnswer
  /\ hResult' = NotHeading
  /\ hCalled' = FALSE
  /\ UNCHANGED classifier
  /\ UNCHANGED exceptHeading

(***************************************************************************)
(* PersonaProcessor: role, domain and expertise level of a persona.        *)
(***************************************************************************)
\* the keys of self.role_domains, in insertion order
RoleNames ==
  << <<"r", "e", "s", "e", "a", "r", "c", "h", "e", "r">>,
     <<"s", "t", "u", "d", "e", "n", "t">>,
     <<"a", "n", "a", "l", "y", "s", "t">>,
     <<"j", "o", "u", "r", "n", "a", "l", "i", "s", "t">>,
     <<"e", "n", "t", "r", "e", "p", "r", "e", "n", "e", "u", "r">>,
     <<"d", "e", "v", "e", "l", "o", "p", "e", "r">>,
     <<"m", "a", "n", "a", "g", "e", "r">>,
     <<"t", "r", "a", "v", "e", "l", " ", "p", "l", "a", "n", "n", "e", "r">>,
     <<"t", "o", "u", "r", "i", "s", "t">>,
     <<"t", "r", "a", "v", "e", "l", "e", "r">> >>

\* role_patterns: the alternatives of each role's pattern, in the order of the roles
RolePatterns ==
  << { <<"p", "h", "d">>,
       <<"r", "e", "s", "e", "a", "r", "c", "h">>,
       <<"s", "c", "i", "e", "n", "t", "i", "s", "t">>,
       <<"a", "c", "a", "d", "e", "m", "i", "c">> },
     { <<"s", "t", "u", "d", "e", "n", "t">>,
       <<"u", "n", "d", "e", "r", "g", "r", "a", "d", "u", "a", "t", "e">>,
       <<"g", "r", "a", "d", "u", "a", "t", "e">>,
       <<"l", "e", "a", "r", "n", "e", "r">> },
     { <<"a", "n", "a", "l", "y", "s", "t">>,
       <<"i", "n", "v", "e", "s", "t", "m", "e", "n", "t">>,
       <<"f", "i", "n", "a", "n", "c", "i", "a", "l">>,
       <<"b", "u", "s", "i", "n", "e", "s", "s">> },
     { <<"j", "o", "u", "r", "n", "a", "l", "i", "s", "t">>,
       <<"r", "e", "p", "o", "r", "t", "e", "r">>,
       <<"w", "r", "i", "t", "e", "r">>,
       <<"m", "e", "d", "i", "a">> },
     { <<"e", "n", "t", "r", "e", "p", "r", "e", "n", "e", "u", "r">>,
       <<"f", "o", "u", "n", "d", "e", "r">>,
       <<"s", "t", "a", "r", "t", "u", "p">>,
       <<"b", "u", "s", "i", "n", "e", "s", "s", " ", "o", "w", "n", "e", "r">> },
     { <<"d", "e", "v", "e", "l", "o", "p", "e", "r">>,
       <<"p", "r", "o", "g", "r", "a", "m", "m", "e", "r">>,
       <<"e", "n", "g", "i", "n", "e", "e", "r">>,
       <<"c", "o", "d", "e", "r">> },
     { <<"m", "a", "n", "a", "g", "e", "r">>,
       <<"d", "i", "r", "e", "c", "t", "o", "r">>,
       <<"e", "x", "e", "c", "u", "t", "i", "v", "e">>,
       <<"l", "e", "a", "d">> },
     { <<"t", "r", "a", "v", "e", "l", " ", "p", "l", "a", "n", "n", "e", "r">>,
       <<"t", "r", "i", "p", " ", "p", "l", "a", "n", "n", "e", "r">>,
       <<"t", "r", "a", "v", "e", "l", " ", "a", "g", "e", "n", "t">>,
       <<"t", "r", "a", "v", "e", "l", " ", "a", "d", "v", "i", "s", "o", "r">> },
     { <<"t", "o", "u", "r", "i", "s", "t">>,
       <<"v", "a", "c", "a", "t", "i", "o", "n", "e", "r">>,
       <<"v", "i", "s", "i", "t", "o", "r">> },
     { <<"t", "r", "a", "v", "e", "l", "e", "r">>,
       <<"t", "r", "a", "v", "e", "l", "l", "e", "r">>,
       <<"b", "a", "c", "k", "p", "a", "c", "k", "e", "r">>,
       <<"e", "x", "p", "l", "o", "r", "e", "r">> } >>

\* the keys of domains, in insertion order
DomainNames ==
  << <<"t", "e", "c", "h", "n", "o", "l", "o", "g", "y">>,
     <<"b", "i", "o", "l", "o", "g", "y">>,
     <<"c", "h", "e", "m", "i", "s", "t", "r", "y">>,
     <<"f", "i", "n", "a", "n", "c", "e">>,
     <<"b", "u", "s", "i", "n", "e", "s", "s">>,
     <<"e", "d", "u", "c", "a", "t", "i", "o", "n">>,
     <<"e", "n", "g", "i", "n", "e", "e", "r", "i", "n", "g">>,
     <<"l", "a", "w">>,
     <<"t", "r", "a", "v", "e", "l">> >>

\* the terms of each domain, in the order of the domains
DomainTerms ==
  << { <<"t", "e", "c", "h">>,
       <<"t", "e", "c", "h", "n", "o", "l", "o", "g", "y">>,
       <<"s", "o", "f", "t", "w", "a", "r", "e">>,
       <<"c", "o", "m", "p", "u", "t", "e", "r">>,
       <<"a", "i">>,
       <<"m", "l">>,
       <<"d", "a", "t", "a", " ", "s", "c", "i", "e", "n", "c", "e">> },
     { <<"b", "i", "o", "l", "o", "g", "y">>,
       <<"b", "i", "o">>,
       <<"l", "i", "f", "e", " ", "s", "c", "i", "e", "n", "c", "e">>,
       <<"m", "e", "d", "i", "c", "a", "l">>,
       <<"h", "e", "a", "l", "t", "h">> },
     { <<"c", "h", "e", "m", "i", "s", "t", "r", "y">>,
       <<"c", "h", "e", "m", "i", "c", "a", "l">>,
       <<"o", "r", "g", "a", "n", "i", "c">>,
       <<"i", "n", "o", "r", "g", "a", "n", "i", "c">> },
     { <<"f", "i", "n", "a", "n", "c", "e">>,
       <<"f", "i", "n", "a", "n", "c", "i", "a", "l">>,
       <<"i", "n", "v", "e", "s", "t", "m", "e", "n", "t">>,
       <<"b", "a", "n", "k", "i", "n", "g">>,
       <<"e", "c", "o", "n", "o", "m", "i", "c", "s">> },
     { <<"b", "u", "s", "i", "n", "e", "s", "s">>,
       <<"m", "a", "n", "a", "g", "e", "m", "e", "n", "t">>,
       <<"m", "a", "r", "k", "e", "t", "i", "n", "g">>,
       <<"s", "a", "l", "e", "s">> },
     { <<"e", "d", "u", "c", "a", "t", "i", "o", "n">>,
       <<"t", "e", "a", "c", "h", "i", "n", "g">>,
       <<"a", "c", "a", "d", "e", "m", "i", "c">>,
       <<"s", "c", "h", "o", "o", "l">> },
     { <<"e", "n", "g", "i", "n", "e", "e", "r", "i", "n", "g">>,
       <<"m", "e", "c", "h", "a", "n", "i", "c", "a", "l">>,
       <<"e", "l", "e", "c", "t", "r", "i", "c", "a", "l">>,
       <<"c", "i", "v", "i", "l">> },
     { <<"l", "a", "w">>,
       <<"l", "e", "g", "a", "l">>,
       <<"a", "t", "t", "o", "r", "n", "e", "y">>,
       <<"l", "a", "w", "y", "e", "r">> },
     { <<"t", "r", "a", "v", "e", "l">>,
       <<"t", "o", "u", "r", "i", "s", "m">>,
       <<"h", "o", "s", "p", "i", "t", "a", "l", "i", "t", "y">>,
       <<"d", "e", "s", "t", "i", "n", "a", "t", "i", "o", "n">>,
       <<"v", "a", "c", "a", "t", "i", "o", "n">>,
       <<"t", "r", "i", "p">>,
       <<"j", "o", "u", "r", "n", "e", "y">> } >>

\* the default role and domain
General == <<"g", "e", "n", "e", "r", "a", "l">>

\* the terms of expertise level expert
ExpertTerms ==
  { <<"p", "h", "d">>,
    <<"d", "o", "c", "t", "o", "r">>,
    <<"p", "r", "o", "f", "e", "s", "s", "o", "r">>,
    <<"s", "e", "n", "i", "o", "r">>,
    <<"e", "x", "p", "e", "r", "t">>,
    <<"l", "e", "a", "d">> }

\* the terms of expertise level intermediate
IntermediateTerms ==
  { <<"m", "a", "s", "t", "e", "r">>,
    <<"g", "r", "a", "d", "u", "a", "t", "e">>,
    <<"e", "x", "p", "e", "r", "i", "e", "n", "c", "e", "d">>,
    <<"a", "n", "a", "l", "y", "s", "t">> }

\* the terms of expertise level beginner
BeginnerTerms ==
  { <<"s", "t", "u", "d", "e", "n", "t">>,
    <<"u", "n", "d", "e", "r", "g", "r", "a", "d", "u", "a", "t", "e">>,
    <<"b", "e", "g", "i", "n", "n", "e", "r">>,
    <<"j", "u", "n", "i", "o", "r">> }

Expert == <<"e", "x", "p", "e", "r", "t">>

Intermediate == <<"i", "n", "t", "e", "r", "m", "e", "d", "i", "a", "t", "e">>

Beginner == <<"b", "e", "g", "i", "n", "n", "e", "r">>

\* the first index of a non-empty set of indices: the first match of a loop
\* over a dict in insertion order
FirstIndex(S) == CHOOSE i \in S : \A j \in S : i <= j

\* the roles whose name is in the lower-cased persona
NamedRoles(pl) == {i \in 1..Len(RoleNames) : contains(pl, RoleNames[i])}

\* the roles whose pattern is found by re.search in the lower-cased persona
PatternRoles(pl) ==
  {i \in 1..Len(RolePatterns) : \E alt \in RolePatterns[i] : contains(pl, alt)}

\* extract_role with the fallback patterns tried before the role names
extract_role_patterns_first(persona) ==
  LET pl == lower(persona)
  IN IF Len(persona) = 0 THEN General
     ELSE IF PatternRoles(pl) # {} THEN RoleNames[FirstIndex(PatternRoles(pl))]
     ELSE IF NamedRoles(pl) # {} THEN RoleNames[FirstIndex(NamedRoles(pl))]
     ELSE General

\* PersonaProcessor._extract_role
extract_role(persona) ==
  LET pl == lower(persona)
  IN IF Len(persona) = 0 THEN General
     ELSE IF NamedRoles(pl) # {} THEN RoleNames[FirstIndex(NamedRoles(pl))]
     ELSE IF PatternRoles(pl) # {} THEN RoleNames[FirstIndex(PatternRoles(pl))]
     ELSE General

\* the domains one of whose terms is in the lower-cased persona
TermDomains(pl) ==
  {i \in 1..Len(DomainTerms) : \E term \in DomainTerms[i] : contains(pl, term)}

\* PersonaProcessor._extract_domain
extract_domain(persona) ==
  LET pl == lower(persona)
  IN IF TermDomains(pl) # {} THEN DomainNames[FirstIndex(TermDomains(pl))]
     ELSE General

\* PersonaProcessor._extract_expertise_level
extract_expertise_level(persona) ==
  LET pl == lower(persona)
  IN IF \E term \in ExpertTerms : contains(pl, term) THEN Expert
     ELSE IF \E term \in IntermediateTerms : contains(pl, term) THEN Intermediate
     ELSE IF \E term \in BeginnerTerms : contains(pl, term) THEN Beginner
     ELSE Intermediate

(***************************************************************************)
(* The keyword lists of the persona profile.                                *)
(***************************************************************************)
\* self.role_domains: the keywords of each role, in the order of the roles
RoleDomains ==
  << << <<"a", "c", "a", "d", "e", "m", "i", "c">>,
        <<"a", "n", "a", "l", "y", "s", "i", "s">>,
        <<"f", "i", "n", "d", "i", "n", "g", "s">>,
        <<"j", "o", "u", "r", "n", "a", "l">>,
        <<"l", "i", "t", "e", "r", "a", "t", "u", "r", "e">>,
        <<"m", "e", "t", "h", "o", "d", "o", "l", "o", "g", "y">>,
        <<"p", "a", "p", "e", "r">>,
        <<"r", "e", "s", "e", "a", "r", "c", "h">>,
        <<"s", "t", "u", "d", "y">> >>,
     << <<"c", "o", "n", "c", "e", "p", "t">>,
        <<"c", "o", "u", "r", "s", "e">>,
        <<"e", "d", "u", "c", "a", "t", "i", "o", "n">>,
        <<"e", "x", "a", "m">>,
        <<"k", "n", "o", "w", "l", "e", "d", "g", "e">>,
        <<"l", "e", "a", "r", "n">>,
        <<"s", "t", "u", "d", "y">>,
        <<"t", "e", "x", "t", "b", "o", "o", "k">>,
        <<"u", "n", "d", "e", "r", "s", "t", "a", "n", "d">> >>,
     << <<"a", "n", "a", "l", "y", "z", "e">>,
        <<"b", "u", "s", "i", "n", "e", "s", "s">>,
        <<"d", "a", "t", "a">>,
        <<"f", "i", "n", "a", "n", "c", "i", "a", "l">>,
        <<"i", "n", "v", "e", "s", "t", "m", "e", "n", "t">>,
        <<"m", "e", "t", "r", "i", "c">>,
        <<"p", "e", "r", "f", "o", "r", "m", "a", "n", "c", "e">>,
        <<"r", "e", "p", "o", "r", "t">>,
        <<"t", "r", "e", "n", "d">> >>,
     << <<"a", "r", "t", "i", "c", "l", "e">>,
        <<"i", "n", "t", "e", "r", "v", "i", "e", "w">>,
        <<"j", "o", "u", "r", "n", "a", "l", "i", "s", "m">>,
        <<"m", "e", "d", "i", "a">>,
        <<"n", "e", "w", "s">>,
        <<"p", "r", "e", "s", "s">>,
        <<"r", "e", "p", "o", "r", "t">>,
        <<"s", "o", "u", "r", "c", "e">>,
        <<"s", "t", "o", "r", "y">> >>,
     << <<"b", "u", "s", "i", "n", "e", "s", "s">>,
        <<"g", "r", "o", "w", "t", "h">>,
        <<"i", "n", "n", "o", "v", "a", "t", "i", "o", "n">>,
        <<"m", "a", "r", "k", "e", "t">>,
        <<"o", "p", "p", "o", "r", "t", "u", "n", "i", "t", "y">>,
        <<"s", "t", "a", "r", "t", "u", "p">>,
        <<"s", "t", "r", "a", "t", "e", "g", "y">>,
        <<"v", "e", "n", "t", "u", "r", "e">> >>,
     << <<"a", "p", "p", "l", "i", "c", "a", "t", "i", "o", "n">>,
        <<"c", "o", "d", "e">>,
        <<"d", "e", "v", "e", "l", "o", "p", "m", "e", "n", "t">>,
        <<"f", "r", "a", "m", "e", "w", "o", "r", "k">>,
        <<"p", "r", "o", "g", "r", "a", "m", "m", "i", "n", "g">>,
        <<"s", "o", "f", "t", "w", "a", "r", "e">>,
        <<"s", "y", "s", "t", "e", "m">>,
        <<"t", "e", "c", "h", "n", "i", "c", "a", "l">> >>,
     << <<"e", "x", "e", "c", "u", "t", "i", "o", "n">>,
        <<"l", "e", "a", "d", "e", "r", "s", "h", "i", "p">>,
        <<"m", "a", "n", "a", "g", "e", "m", "e", "n", "t">>,
        <<"o", "p", "e", "r", "a", "t", "i", "o", "n", "s">>,
        <<"p", "l", "a", "n", "n", "i", "n", "g">>,
        <<"p", "r", "o", "j", "e", "c", "t">>,
        <<"s", "t", "r", "a", "t", "e", "g", "y">>,
        <<"t", "e", "a", "m">> >>,
     << <<"a", "c", "c", "o", "m", "m", "o", "d", "a", "t", "i", "o", "n">>,
        <<"a", "c", "t", "i", "v", "i", "t", "i", "e", "s">>,
        <<"a", "t", "t", "r", "a", "c", "t", "i", "o", "n", "s">>,
        <<"b", "o", "o", "k", "i", "n", "g">>,
        <<"d", "e", "s", "t", "i", "n", "a", "t", "i", "o", "n">>,
        <<"e", "x", "p", "e", "r", "i", "e", "n", "c", "e">>,
        <<"e", "x", "p", "l", "o", "r", "e">>,
        <<"f", "l", "i", "g", "h", "t">>,
        <<"g", "u", "i", "d", "e">>,
        <<"h", "o", "t", "e", "l", "s">>,
        <<"i", "t", "i", "n", "e", "r", "a", "r", "y">>,
        <<"r", "e", "s", "t", "a", "u", "r", "a", "n", "t", "s">>,
        <<"s", "i", "g", "h", "t", "s", "e", "e", "i", "n", "g">>,
        <<"t", "o", "u", "r", "i", "s", "m">>,
        <<"t", "r", "a", "n", "s", "p", "o", "r", "t">>,
        <<"t", "r", "a", "v", "e", "l">>,
        <<"t", "r", "i", "p">>,
        <<"v", "a", "c", "a", "t", "i", "o", "n">>,
        <<"v", "i", "s", "i", "t">> >>,
     << <<"a", "t", "t", "r", "a", "c", "t", "i", "o", "n", "s">>,
        <<"c", "u", "l", "t", "u", "r", "e">>,
        <<"e", "x", "p", "e", "r", "i", "e", "n", "c", "e">>,
        <<"e", "x", "p", "l", "o", "r", "e">>,
        <<"h", "o", "l", "i", "d", "a", "y">>,
        <<"l", "e", "i", "s", "u", "r", "e">>,
        <<"l", "o", "c", "a", "l">>,
        <<"s", "i", "g", "h", "t", "s", "e", "e", "i", "n", "g">>,
        <<"t", "r", "a", "v", "e", "l">>,
        <<"v", "a", "c", "a", "t", "i", "o", "n">>,
        <<"v", "i", "s", "i", "t">> >>,
     << <<"a", "d", "v", "e", "n", "t", "u", "r", "e">>,
        <<"c", "u", "l", "t", "u", "r", "e">>,
        <<"d", "e", "s", "t", "i", "n", "a", "t", "i", "o", "n">>,
        <<"d", "i", "s", "c", "o", "v", "e", "r">>,
        <<"e", "x", "p", "e", "r", "i", "e", "n", "c", "e">>,
        <<"e", "x", "p", "l", "o", "r", "e">>,
        <<"i", "m", "m", "e", "r", "s", "e">>,
        <<"j", "o", "u", "r", "n", "e", "y">>,
        <<"l", "o", "c", "a", "l">> >> >>

\* the keys of self.job_actions, in insertion order
JobActionNames ==
  << <<"r", "e", "v", "i", "e", "w">>,
     <<"s", "u", "m", "m", "a", "r", "i", "z", "e">>,
     <<"c", "o", "m", "p", "a", "r", "e">>,
     <<"i", "d", "e", "n", "t", "i", "f", "y">>,
     <<"p", "r", "e", "p", "a", "r", "e">>,
     <<"l", "e", "a", "r", "n">>,
     <<"p", "l", "a", "n">> >>

\* self.job_actions: the action words of each job type
JobActions ==
  << { <<"a", "n", "a", "l", "y", "z", "e">>,
       <<"a", "s", "s", "e", "s", "s">>,
       <<"c", "r", "i", "t", "i", "q", "u", "e">>,
       <<"e", "v", "a", "l", "u", "a", "t", "e">>,
       <<"e", "x", "a", "m", "i", "n", "e">>,
       <<"r", "e", "v", "i", "e", "w">> },
     { <<"a", "b", "s", "t", "r", "a", "c", "t">>,
       <<"b", "r", "i", "e", "f">>,
       <<"c", "o", "n", "d", "e", "n", "s", "e", "d">>,
       <<"o", "v", "e", "r", "v", "i", "e", "w">>,
       <<"s", "u", "m", "m", "a", "r", "i", "z", "e">>,
       <<"s", "y", "n", "o", "p", "s", "i", "s">> },
     { <<"b", "e", "n", "c", "h", "m", "a", "r", "k">>,
       <<"c", "o", "m", "p", "a", "r", "e">>,
       <<"c", "o", "n", "t", "r", "a", "s", "t">>,
       <<"d", "i", "f", "f", "e", "r", "e", "n", "c", "e">>,
       <<"s", "i", "m", "i", "l", "a", "r", "i", "t", "y">>,
       <<"v", "e", "r", "s", "u", "s">> },
     { <<"d", "e", "t", "e", "c", "t">>,
       <<"d", "i", "s", "c", "o", "v", "e", "r">>,
       <<"f", "i", "n", "d">>,
       <<"i", "d", "e", "n", "t", "i", "f", "y">>,
       <<"l", "o", "c", "a", "t", "e">>,
       <<"r", "e", "c", "o", "g", "n", "i", "z", "e">> },
     { <<"b", "u", "i", "l", "d">>,
       <<"c", "o", "n", "s", "t", "r", "u", "c", "t">>,
       <<"c", "r", "e", "a", "t", "e">>,
       <<"d", "e", "s", "i", "g", "n">>,
       <<"d", "e", "v", "e", "l", "o", "p">>,
       <<"p", "r", "e", "p", "a", "r", "e">> },
     { <<"c", "o", "m", "p", "r", "e", "h", "e", "n", "d">>,
       <<"g", "r", "a", "s", "p">>,
       <<"l", "e", "a", "r", "n">>,
       <<"m", "a", "s", "t", "e", "r">>,
       <<"s", "t", "u", "d", "y">>,
       <<"u", "n", "d", "e", "r", "s", "t", "a", "n", "d">> },
     { <<"a", "r", "r", "a", "n", "g", "e">>,
       <<"b", "o", "o", "k">>,
       <<"c", "o", "o", "r", "d", "i", "n", "a", "t", "e">>,
       <<"i", "t", "i", "n", "e", "r", "a", "r", "y">>,
       <<"o", "r", "g", "a", "n", "i", "z", "e">>,
       <<"p", "l", "a", "n">>,
       <<"r", "e", "s", "e", "r", "v", "e">>,
       <<"s", "c", "h", "e", "d", "u", "l", "e">>,
       <<"t", "r", "a", "v", "e", "l">>,
       <<"t", "r", "i", "p">> } >>

\* the stop words of the keyword extraction without spaCy
StopWords ==
  { <<"a">>,
    <<"a", "n">>,
    <<"a", "n", "d">>,
    <<"a", "r", "e">>,
    <<"a", "t">>,
    <<"b", "e">>,
    <<"b", "e", "e", "n">>,
    <<"b", "u", "t">>,
    <<"b", "y">>,
    <<"c", "a", "n">>,
    <<"c", "o", "u", "l", "d">>,
    <<"d", "i", "d">>,
    <<"d", "o">>,
    <<"d", "o", "e", "s">>,
    <<"f", "o", "r">>,
    <<"h", "a", "d">>,
    <<"h", "a", "s">>,
    <<"h", "a", "v", "e">>,
    <<"h", "e">>,
    <<"h", "e", "r">>,
    <<"h", "i", "m">>,
    <<"i">>,
    <<"i", "n">>,
    <<"i", "s">>,
    <<"i", "t">>,
    <<"m", "a", "y">>,
    <<"m", "e">>,
    <<"m", "i", "g", "h", "t">>,
    <<"m", "u", "s", "t">>,
    <<"o", "f">>,
    <<"o", "n">>,
    <<"o", "r">>,
    <<"s", "h", "e">>,
    <<"s", "h", "o", "u", "l", "d">>,
    <<"t", "h", "a", "t">>,
    <<"t", "h", "e">>,
    <<"t", "h", "e", "m">>,
    <<"t", "h", "e", "s", "e">>,
    <<"t", "h", "e", "y">>,
    <<"t", "h", "i", "s">>,
    <<"t", "h", "o", "s", "e">>,
    <<"t", "o">>,
    <<"u", "s">>,
    <<"w", "a", "s">>,
    <<"w", "e">>,
    <<"w", "e", "r", "e">>,
    <<"w", "i", "l", "l">>,
    <<"w", "i", "t", "h">>,
    <<"w", "o", "u", "l", "d">>,
    <<"y", "o", "u">> }

\* action_patterns: the alternatives of each pattern
ActionPatterns ==
  << { <<"a", "n", "a", "l", "y", "z", "e">>,
       <<"a", "n", "a", "l", "y", "z", "i", "n", "g">>,
       <<"a", "n", "a", "l", "y", "z", "e", "d">> },
     { <<"s", "t", "u", "d", "y">>,
       <<"s", "t", "u", "d", "y", "i", "n", "g">>,
       <<"s", "t", "u", "d", "i", "e", "d">> },
     { <<"r", "e", "s", "e", "a", "r", "c", "h">>,
       <<"r", "e", "s", "e", "a", "r", "c", "h", "i", "n", "g">>,
       <<"r", "e", "s", "e", "a", "r", "c", "h", "e", "d">> },
     { <<"r", "e", "v", "i", "e", "w">>,
       <<"r", "e", "v", "i", "e", "w", "i", "n", "g">>,
       <<"r", "e", "v", "i", "e", "w", "e", "d">> },
     { <<"e", "x", "a", "m", "i", "n", "e">>,
       <<"e", "x", "a", "m", "i", "n", "i", "n", "g">>,
       <<"e", "x", "a", "m", "i", "n", "e", "d">> },
     { <<"i", "n", "v", "e", "s", "t", "i", "g", "a", "t", "e">>,
       <<"i", "n", "v", "e", "s", "t", "i", "g", "a", "t", "i", "n", "g">>,
       <<"i", "n", "v", "e", "s", "t", "i", "g", "a", "t", "e", "d">> },
     { <<"i", "d", "e", "n", "t", "i", "f", "y">>,
       <<"i", "d", "e", "n", "t", "i", "f", "y", "i", "n", "g">>,
       <<"i", "d", "e", "n", "t", "i", "f", "i", "e", "d">> },
     { <<"f", "i", "n", "d">>,
       <<"f", "i", "n", "d", "i", "n", "g">>,
       <<"f", "o", "u", "n", "d">> },
     { <<"d", "i", "s", "c", "o", "v", "e", "r">>,
       <<"d", "i", "s", "c", "o", "v", "e", "r", "i", "n", "g">>,
       <<"d", "i", "s", "c", "o", "v", "e", "r", "e", "d">> },
     { <<"d", "e", "t", "e", "r", "m", "i", "n", "e">>,
       <<"d", "e", "t", "e", "r", "m", "i", "n", "i", "n", "g">>,
       <<"d", "e", "t", "e", "r", "m", "i", "n", "e", "d">> },
     { <<"p", "r", "e", "p", "a", "r", "e">>,
       <<"p", "r", "e", "p", "a", "r", "i", "n", "g">>,
       <<"p", "r", "e", "p", "a", "r", "e", "d">> },
     { <<"c", "r", "e", "a", "t", "e">>,
       <<"c", "r", "e", "a", "t", "i", "n", "g">>,
       <<"c", "r", "e", "a", "t", "e", "d">> },
     { <<"d", "e", "v", "e", "l", "o", "p">>,
       <<"d", "e", "v", "e", "l", "o", "p", "i", "n", "g">>,
       <<"d", "e", "v", "e", "l", "o", "p", "e", "d">> },
     { <<"b", "u", "i", "l", "d">>,
       <<"b", "u", "i", "l", "d", "i", "n", "g">>,
       <<"b", "u", "i", "l", "t">> },
     { <<"d", "e", "s", "i", "g", "n">>,
       <<"d", "e", "s", "i", "g", "n", "i", "n", "g">>,
       <<"d", "e", "s", "i", "g", "n", "e", "d">> },
     { <<"l", "e", "a", "r", "n">>,
       <<"l", "e", "a", "r", "n", "i", "n", "g">>,
       <<"l", "e", "a", "r", "n", "e", "d">> },
     { <<"u", "n", "d", "e", "r", "s", "t", "a", "n", "d">>,
       <<"u", "n", "d", "e", "r", "s", "t", "a", "n", "d", "i", "n", "g">>,
       <<"u", "n", "d", "e", "r", "s", "t", "o", "o", "d">> },
     { <<"c", "o", "m", "p", "a", "r", "e">>,
       <<"c", "o", "m", "p", "a", "r", "i", "n", "g">>,
       <<"c", "o", "m", "p", "a", "r", "e", "d">> },
     { <<"e", "v", "a", "l", "u", "a", "t", "e">>,
       <<"e", "v", "a", "l", "u", "a", "t", "i", "n", "g">>,
       <<"e", "v", "a", "l", "u", "a", "t", "e", "d">> },
     { <<"a", "s", "s", "e", "s", "s">>,
       <<"a", "s", "s", "e", "s", "s", "i", "n", "g">>,
       <<"a", "s", "s", "e", "s", "s", "e", "d">> } >>

\* TextProcessor.nlp is None: no spaCy pipeline is loaded
NlpAbsent == [loaded |-> FALSE, finds |-> "nothing"]

\* what a loaded pipeline finds in a text: nothing, or its content words as
\* keywords
NlpStates ==
  {NlpAbsent, [loaded |-> TRUE, finds |-> "nothing"], [loaded |-> TRUE, finds |-> "words"]}

\* the first occurrences of the elements of a list
RECURSIVE Distinct(_)
Distinct(s) ==
  IF s = <<>> THEN <<>>
  ELSE LET front == Distinct(SubSeq(s, 1, Len(s) - 1))
           last == s[Len(s)]
       IN IF \E i \in 1..Len(front) : front[i] = last THEN front
          ELSE Append(front, last)

\* Counter(words).most_common(top_n): the distinct words by falling count,
\* words of equal count in the order of their first occurrence
most_common(words, top_n) ==
  LET distinct == Distinct(words)
      times == [k \in 1..Len(distinct) |->
                  Cardinality({i \in 1..Len(words) : words[i] = distinct[k]})]
      place(k) == 1 + Cardinality({j \in 1..Len(distinct) :
                                      \/ times[j] > times[k]
                                      \/ times[j] = times[k] /\ j < k})
  IN [r \in 1..Min(Len(distinct), top_n) |->
        distinct[CHOOSE k \in 1..Len(distinct) : place(k) = r]]

\* re.sub(r'[^\w\s]', ' ', text.lower())
Unpunctuated(text) ==
  LET text_lower == lower(text)
  IN [i \in 1..Len(text) |->
        IF text_lower[i] \in WordChars \cup Whitespace THEN text_lower[i] ELSE " "]

\* the keyword extraction of extract_keywords without spaCy: the words of
\* more than two characters that are no stop words, most frequent first
content_words(text, top_n) ==
  LET words == split(Unpunctuated(text))
      keywords == SelectSeq(words, LAMBDA word : Len(word) > 2 /\ word \notin StopWords)
  IN most_common(keywords, top_n)

\* TextProcessor.extract_keywords(text, top_n)
extract_keywords(text, top_n, nlp) ==
  IF text = <<>> THEN <<>>
  ELSE IF nlp.loaded
       THEN (IF nlp.finds = "words" THEN content_words(text, top_n) ELSE <<>>)
       ELSE content_words(text, top_n)

\* a match of [A-Z][a-z]+\b at i ends before the index returned; 0 if none
CapitalizedWordEnd(text, i) ==
  IF i <= Len(text) /\ text[i] \in Upper
  THEN LET e == RunEnd(text, i + 1, Lower)
       IN IF e > i + 1 /\ (e > Len(text) \/ text[e] \notin WordChars) THEN e ELSE 0
  ELSE 0

\* the end of the longest match of (?:\s+[A-Z][a-z]+)*\b from e on
RECURSIVE CapitalizedRunEnd(_, _)
CapitalizedRunEnd(text, e) ==
  LET a == RunEnd(text, e, Whitespace)
      b == IF a > e THEN CapitalizedWordEnd(text, a) ELSE 0
  IN IF b > 0 THEN CapitalizedRunEnd(text, b) ELSE e

\* re.findall(r'\b[A-Z][a-z]+(?:\s+[A-Z][a-z]+)*\b', text) from index i on
RECURSIVE CapitalizedRuns(_, _)
CapitalizedRuns(text, i) ==
  IF i > Len(text) THEN <<>>
  ELSE LET e == IF i = 1 \/ text[i - 1] \notin WordChars
                THEN CapitalizedWordEnd(text, i) ELSE 0
       IN IF e = 0 THEN CapitalizedRuns(text, i + 1)
          ELSE LET f == CapitalizedRunEnd(text, e)
               IN <<SubSeq(text, i, f - 1)>> \o CapitalizedRuns(text, f)

\* TextProcessor.extract_entities(text): the entities of the types the
\* persona keywords take (ORG, PERSON, GPE); without spaCy the capitalised
\* words are the PERSON entities, a loaded pipeline finds no entity here
extract_entities(text, nlp) ==
  IF text = <<>> \/ nlp.loaded THEN <<>> ELSE Distinct(CapitalizedRuns(text, 1))

\* self.role_domains[role], empty for the role general
role_domain(role) ==
  IF \E i \in 1..Len(RoleNames) : RoleNames[i] = role
  THEN RoleDomains[CHOOSE i \in 1..Len(RoleNames) : RoleNames[i] = role]
  ELSE <<>>

\* PersonaProcessor._extract_persona_keywords: list(keywords), a set whose
\* order is not fixed; here the keywords in the order they are added
extract_persona_keywords(persona, nlp) ==
  LET nlp_keywords == IF nlp.loaded THEN extract_keywords(persona, 15, nlp) ELSE <<>>
      entities == extract_entities(persona, nlp)
  IN Distinct(nlp_keywords \o role_domain(extract_role(persona))
                \o [i \in 1..Len(entities) |-> lower(entities[i])])

\* result_patterns: the literal text before the group ([^.]+) of each pattern
ResultPatterns ==
  << {<<"f", "o", "c", "u", "s", " ", "o", "n", " ">>, <<"f", "o", "c", "u", "s", "i", "n", "g", " ", "o", "n", " ">>},
     {<<"i", "d", "e", "n", "t", "i", "f", "y", " ">>},
     {<<"a", "n", "a", "l", "y", "z", "e", " ">>},
     {<<"s", "u", "m", "m", "a", "r", "i", "z", "e", " ">>},
     {<<"r", "e", "v", "i", "e", "w", " ">>},
     {<<"p", "r", "e", "p", "a", "r", "e", " ">>} >>

Analyze == <<"a", "n", "a", "l", "y", "z", "e">>

\* PersonaProcessor._extract_job_type
extract_job_type(job_to_be_done) ==
  LET job_lower == lower(job_to_be_done)
      typed == {i \in 1..Len(JobActionNames) :
                  \E action \in JobActions[i] : contains(job_lower, action)}
  IN IF typed = {} THEN Analyze ELSE JobActionNames[FirstIndex(typed)]

\* re.findall(r'"([^"]*)"', text) from index i on
RECURSIVE QuotedTerms(_, _)
QuotedTerms(text, i) ==
  LET a == RunEnd(text, i, {text[k] : k \in 1..Len(text)} \ {"\""})
      b == RunEnd(text, a + 1, {text[k] : k \in 1..Len(text)} \ {"\""})
  IN IF a > Len(text) \/ b > Len(text) THEN <<>>
     ELSE <<SubSeq(text, a + 1, b - 1)>> \o QuotedTerms(text, b + 1)

\* re.findall(r'\b[A-Z][a-z]+\b', text) from index i on
RECURSIVE CapitalizedTerms(_, _)
CapitalizedTerms(text, i) ==
  IF i > Len(text) THEN <<>>
  ELSE LET e == IF i = 1 \/ text[i - 1] \notin WordChars
                THEN CapitalizedWordEnd(text, i) ELSE 0
       IN IF e = 0 THEN CapitalizedTerms(text, i + 1)
          ELSE <<SubSeq(text, i, e - 1)>> \o CapitalizedTerms(text, e)

\* PersonaProcessor._extract_job_keywords: list(keywords), here in the
\* order the keywords are added
extract_job_keywords(job_to_be_done, nlp) ==
  LET nlp_keywords == IF nlp.loaded THEN extract_keywords(job_to_be_done, 20, nlp) ELSE <<>>
      quoted_terms == QuotedTerms(job_to_be_done, 1)
      capitalized_terms == CapitalizedTerms(job_to_be_done, 1)
  IN Distinct(nlp_keywords
                \o [i \in 1..Len(quoted_terms) |-> lower(quoted_terms[i])]
                \o [i \in 1..Len(capitalized_terms) |-> lower(capitalized_terms[i])])

\* TextProcessor.extract_action_words: without spaCy the words of the
\* lower-cased text that are an alternative of a pattern \b(...)\b, pattern
\* by pattern; a loaded pipeline gives the verbs it tags, here the same words
\* or none
extract_action_words(text, nlp) ==
  IF text = <<>> \/ (nlp.loaded /\ nlp.finds = "nothing") THEN <<>>
  ELSE LET words == findall_words(lower(text))
           matches(i) == SelectSeq(words, LAMBDA word : word \in ActionPatterns[i])
           RECURSIVE upto(_)
           upto(n) == IF n = 0 THEN <<>> ELSE upto(n - 1) \o matches(n)
       IN Distinct(upto(Len(ActionPatterns)))

\* re.findall(prefix + r'([^.]+)', text, re.IGNORECASE) from index i on
RECURSIVE CapturesFrom(_, _, _, _)
CapturesFrom(text, text_lower, prefixes, i) ==
  IF i > Len(text) THEN <<>>
  ELSE LET hits == {p \in prefixes :
                      /\ i + Len(p) <= Len(text)
                      /\ SubSeq(text_lower, i, i + Len(p) - 1) = p
                      /\ text[i + Len(p)] # "."}
       IN IF hits = {} THEN CapturesFrom(text, text_lower, prefixes, i + 1)
          ELSE LET start == i + Len(CHOOSE p \in hits : TRUE)
                   e == RunEnd(text, start, {text[k] : k \in 1..Len(text)} \ {"."})
               IN <<SubSeq(text, start, e - 1)>> \o CapturesFrom(text, text_lower, prefixes, e)

\* the longest success criterion kept is shorter than this, the shortest longer
MaxCriterion == 100

MinCriterion == 5

MaxCriteria == 5

\* PersonaProcessor._extract_success_criteria
extract_success_criteria(job_to_be_done) ==
  LET job_lower == lower(job_to_be_done)
      RECURSIVE upto(_)
      upto(n) == IF n = 0 THEN <<>>
                 ELSE upto(n - 1) \o CapturesFrom(job_to_be_done, job_lower, ResultPatterns[n], 1)
      criteria == upto(Len(ResultPatterns))
      stripped == [i \in 1..Len(criteria) |-> strip(criteria[i])]
      cleaned_criteria ==
        SelectSeq(stripped, LAMBDA c : Len(c) > MinCriterion /\ Len(c) < MaxCriterion)
  IN SubSeq(cleaned_criteria, 1, Min(Len(cleaned_criteria), MaxCriteria))

\* PersonaProcessor.process_persona
process_persona(persona, job_to_be_done, nlp) ==
  [raw_persona |-> persona,
   raw_job |-> job_to_be_done,
   role |-> extract_role(persona),
   domain |-> extract_domain(persona),
   expertise_level |-> extract_expertise_level(persona),
   keywords |-> extract_persona_keywords(persona, nlp),
   job_type |-> extract_job_type(job_to_be_done),
   job_keywords |-> extract_job_keywords(job_to_be_done, nlp),
   action_words |-> extract_action_words(job_to_be_done, nlp),
   success_criteria |-> extract_success_criteria(job_to_be_done)]

(***************************************************************************)
(* The personas and jobs handed to process_persona: a qualifier, a noun    *)
(* and a field, or the empty persona.                                      *)
(***************************************************************************)
PersonaQualifiers ==
  { <<>>,
    <<"P", "h", "D", " ">>,
    <<"I", "n", "v", "e", "s", "t", "m", "e", "n", "t", " ">>,
    <<"U", "n", "d", "e", "r", "g", "r", "a", "d", "u", "a", "t", "e", " ", "C", "h", "e", "m", "i", "s", "t", "r", "y", " ">>,
    <<"R", "e", "s", "e", "a", "r", "c", "h", " ">>,
    <<"S", "e", "n", "i", "o", "r", " ">>,
    <<"T", "r", "a", "v", "e", "l", " ">> }

PersonaNouns ==
  { <<"R", "e", "s", "e", "a", "r", "c", "h", "e", "r">>,
    <<"A", "n", "a", "l", "y", "s", "t">>,
    <<"S", "t", "u", "d", "e", "n", "t">>,
    <<"S", "c", "i", "e", "n", "t", "i", "s", "t">>,
    <<"P", "l", "a", "n", "n", "e", "r">>,
    <<"T", "e", "a", "c", "h", "e", "r">>,
    <<"L", "e", "a", "d">> }

PersonaFields ==
  { <<>>,
    <<" ", "i", "n", " ", "C", "o", "m", "p", "u", "t", "a", "t", "i", "o", "n", "a", "l", " ", "B", "i", "o", "l", "o", "g", "y">>,
    <<" ", "i", "n", " ", "M", "e", "d", "i", "c", "a", "l", " ", "A", "I">>,
    <<" ", "f", "o", "r", " ", "B", "u", "s", "i", "n", "e", "s", "s", " ", "T", "r", "a", "v", "e", "l">> }

PersonaTexts ==
  {<<>>} \cup
  {q \o n \o f : q \in PersonaQualifiers, n \in PersonaNouns, f \in PersonaFields}

JobTexts ==
  { <<>>,
    <<"a", "n", "a", "l", "y", "z", "e", " ", "r", "e", "v", "e", "n", "u", "e", " ", "t", "r", "e", "n", "d", "s">>,
    <<"l", "i", "t", "e", "r", "a", "t", "u", "r", "e", " ", "r", "e", "v", "i", "e", "w", " ", "o", "n", " ", "m", "e", "t", "h", "o", "d", "o", "l", "o", "g", "i", "e", "s", " ", "a", "n", "d", " ", "d", "a", "t", "a", "s", "e", "t", "s">>,
    <<"P", "r", "e", "p", "a", "r", "e", " ", "a", " ", "\"", "G", "e", "n", "e", " ", "T", "h", "e", "r", "a", "p", "y", "\"", " ", "r", "e", "v", "i", "e", "w", ".", " ", "F", "o", "c", "u", "s", " ", "o", "n", " ", "t", "h", "e", " ", "m", "e", "t", "h", "o", "d", "s", " ", "o", "f", " ", "t", "h", "e", " ", "t", "r", "i", "a", "l", "s", ".">> }

NoProfile == process_persona(<<>>, <<>>, NlpAbsent)

PersonaIdle ==
  /\ pPersona = <<>>
  /\ pJob = <<>>
  /\ pNlp = NlpAbsent
  /\ pProfile = NoProfile
  /\ pCalled = FALSE

CallProcessPersona ==
  \E persona \in PersonaTexts, job \in JobTexts, nlp \in NlpStates :
    /\ pCalled = FALSE
    /\ pPersona' = persona
    /\ pJob' = job
    /\ pNlp' = nlp
    /\ pProfile' = process_persona(persona, job, nlp)
    /\ pCalled' = TRUE
    /\ UNCHANGED exceptPersona

\* the caller has used the profile; the processor is ready for the next call
ReturnProcessPersona ==
  /\ pCalled = TRUE
  /\ pPersona' = <<>>
  /\ pJob' = <<>>
  /\ pNlp' = NlpAbsent
  /\ pProfile' = NoProfile
  /\ pCalled' = FALSE
  /\ UNCHANGED exceptPersona

(***************************************************************************)
(* Document content: text blocks and the headings detected in them.        *)
(***************************************************************************)
\* str.endswith(p) for a string p
hassuffix(s, p) == Len(s) >= Len(p) /\ SubSeq(s, Len(s) - Len(p) + 1, Len(s)) = p

\* ' '.join(words)
RECURSIVE join(_)
join(words) ==
  IF Len(words) = 0 THEN <<>>
  ELSE IF Len(words) = 1 THEN words[1]
  ELSE words[1] \o <<" ">> \o join(Tail(words))

\* the characters clean_text keeps: [\w\s\.\,\!\?\-\:\;\(\)]
KeptChars == WordChars \cup Whitespace \cup {".", ",", "!", "?", "-", ":", ";", "(", ")"}

\* clean_text of pdf_utils
clean_text(text) ==
  LET joined == join(split(text))
      replaced == [i \in 1..Len(joined) |->
                     IF joined[i] \in KeptChars THEN joined[i] ELSE " "]
  IN IF Len(text) = 0 THEN <<>>
     ELSE strip(join(split(replaced)))

\* the font size both readers give every block
FontSize == 12

\* the page of every block of a text file
TextFilePage == 1

\* the height of a simulated line of a text file
LineHeight == 20

\* extract_text_from_file: one block per non-blank line, at its line's position
RECURSIVE LineBlocks(_, _)
LineBlocks(lines, i) ==
  IF i > Len(lines) THEN <<>>
  ELSE IF Len(strip(lines[i])) > 0
       THEN <<[text |-> strip(lines[i]), page_num |-> TextFilePage,
               y |-> (i - 1) * LineHeight, font_size |-> FontSize]>>
              \o LineBlocks(lines, i + 1)
       ELSE LineBlocks(lines, i + 1)

\* extract_text_from_file: a file that cannot be read gives no blocks
extract_text_from_file(file) ==
  IF file.readable THEN LineBlocks(file.lines, 1) ELSE <<>>

\* the loop of extract_pdf_content: one block per fragment with cleaned text
RECURSIVE PdfBlocks(_)
PdfBlocks(raw) ==
  IF Len(raw) = 0 THEN <<>>
  ELSE LET cleaned_text == clean_text(raw[1].text)
       IN IF Len(cleaned_text) > 0
          THEN <<[text |-> cleaned_text, page_num |-> raw[1].page,
                  y |-> raw[1].y, font_size |-> FontSize]>> \o PdfBlocks(Tail(raw))
          ELSE PdfBlocks(Tail(raw))

\* the end of the longest (\.\d+)* that starts at i
RECURSIVE NumberGroupsEnd(_, _)
NumberGroupsEnd(t, i) ==
  IF i + 1 <= Len(t) /\ t[i] = "." /\ t[i + 1] \in Digits
  THEN NumberGroupsEnd(t, RunEnd(t, i + 1, Digits))
  ELSE i

\* r'^\d+(\.\d+)*\.?\s+\w+'
NumberedSection(t) ==
  LET a == RunEnd(t, 1, Digits)
      b == NumberGroupsEnd(t, a)
      c == IF b <= Len(t) /\ t[b] = "." THEN b + 1 ELSE b
      d == RunEnd(t, c, Whitespace)
  IN a > 1 /\ d > c /\ d <= Len(t) /\ t[d] \in WordChars

\* the level cap of detect_headings_from_text
MaxDetectedLevel == 4

\* the confidence of a heading detected from the text, in hundredths
TextConfidence == 70

NoDetection == [is_heading |-> FALSE, level |-> 3]

\* the three patterns of detect_headings_from_text, tried in order
DetectedLevel(text) ==
  IF NumberedSection(text)
  THEN [is_heading |-> TRUE, level |-> Min(count(text, ".") + 1, MaxDetectedLevel)]
  ELSE IF Len(text) < 80 /\ ~endswith(text, ".") /\ ~endswith(text, ",")
  THEN IF Len(split(text)) <= 8 THEN [is_heading |-> TRUE, level |-> 2] ELSE NoDetection
  ELSE IF isupper(text) /\ Len(split(text)) <= 6
  THEN [is_heading |-> TRUE, level |-> 1]
  ELSE NoDetection

\* detect_headings_from_text
RECURSIVE detect_headings_from_text(_)
detect_headings_from_text(text_blocks) ==
  IF Len(text_blocks) = 0 THEN <<>>
  ELSE LET block == text_blocks[1]
           text == strip(block.text)
           rest == detect_headings_from_text(Tail(text_blocks))
           detected == DetectedLevel(text)
       IN IF Len(text) < 3 \/ Len(text) > 200 THEN rest
          ELSE IF detected.is_heading
          THEN <<[text |-> text, level |-> detected.level,
                  page_num |-> block.page_num, y |-> block.y,
                  font_size |-> block.font_size, confidence |-> TextConfidence]>> \o rest
          ELSE rest

NoContent == [raised |-> FALSE, text_blocks |-> <<>>, headings |-> <<>>]

ContentError == [raised |-> TRUE, text_blocks |-> <<>>, headings |-> <<>>]

\* extract_document_structure of text_utils
extract_document_structure(file) ==
  LET text_blocks == extract_text_from_file(file)
  IN IF Len(text_blocks) = 0 THEN NoContent
     ELSE [raised |-> FALSE, text_blocks |-> text_blocks,
           headings |-> detect_headings_from_text(text_blocks)]

\* extract_pdf_content: fitz.open raises on a file it cannot open
extract_pdf_content(file, available) ==
  IF ~available THEN ContentError
  ELSE IF ~file.readable THEN ContentError
  ELSE LET text_blocks == PdfBlocks(file.fragments)
       IN [raised |-> FALSE, text_blocks |-> text_blocks,
           headings |-> detect_headings_from_text(text_blocks)]

TxtSuffix == <<".", "t", "x", "t">>

PdfSuffix == <<".", "p", "d", "f">>

\* extract_document_content of pdf_utils
extract_document_content(file_path, file, available) ==
  LET file_path_lower == lower(file_path)
  IN IF hassuffix(file_path_lower, TxtSuffix) THEN extract_document_structure(file)
     ELSE IF hassuffix(file_path_lower, PdfSuffix) /\ available
     THEN extract_pdf_content(file, available)
     ELSE NoContent

(***************************************************************************)
(* OutlineExtractor: the outline built from the detected headings.         *)
(***************************************************************************)
\* the key (page_num, bbox[1]) of a heading is at most that of another
PositionLeq(a, b) ==
  a.page_num < b.page_num \/ (a.page_num = b.page_num /\ a.y <= b.y)

\* one step of a stable sort: h goes behind every element that is not after it
RECURSIVE InsertByPosition(_, _)
InsertByPosition(sorted, h) ==
  IF Len(sorted) = 0 THEN <<h>>
  ELSE IF PositionLeq(sorted[Len(sorted)], h) THEN Append(sorted, h)
  ELSE Append(InsertByPosition(SubSeq(sorted, 1, Len(sorted) - 1), h), sorted[Len(sorted)])

\* sorted(headings, key=lambda h: (h['page_num'], h['bbox'][1]))
RECURSIVE SortByPosition(_)
SortByPosition(headings) ==
  IF Len(headings) = 0 THEN <<>>
  ELSE InsertByPosition(SortByPosition(SubSeq(headings, 1, Len(headings) - 1)),
                        headings[Len(headings)])

\* The outline is kept as the sequence of its nodes in the order they were
\* added; `parent` is the position of the node whose subsections list holds
\* the node, 0 for a node of the top-level list.
section_info(heading, parent) ==
  [section_title |-> heading.text, level |-> heading.level,
   page_number |-> heading.page_num, parent |-> parent]

\* the branches of _build_outline_structure without the fallback: a heading
\* no branch takes is appended to no list
ParentWithoutFallback(level, current_h1, current_h2) ==
  IF level = 1 THEN 0
  ELSE IF level = 2 /\ current_h1 # 0 THEN current_h1
  ELSE IF level = 3 /\ current_h2 # 0 THEN current_h2
  ELSE IF level >= 4
  THEN IF current_h2 # 0 THEN current_h2
       ELSE IF current_h1 # 0 THEN current_h1
       ELSE 0
  ELSE -1

\* the list a heading is appended to, given current_h1 and current_h2
ParentOf(level, current_h1, current_h2) ==
  IF level = 1 THEN 0
  ELSE IF level = 2 /\ current_h1 # 0 THEN current_h1
  ELSE IF level = 3 /\ current_h2 # 0 THEN current_h2
  ELSE IF level >= 4
  THEN IF current_h2 # 0 THEN current_h2
       ELSE IF current_h1 # 0 THEN current_h1
       ELSE 0
  ELSE 0

\* the loop of _build_outline_structure from the i-th sorted heading on
RECURSIVE BuildFrom(_, _, _, _, _)
BuildFrom(sorted_headings, i, outline, current_h1, current_h2) ==
  IF i > Len(sorted_headings) THEN outline
  ELSE LET level == sorted_headings[i].level
           node == section_info(sorted_headings[i], ParentOf(level, current_h1, current_h2))
           at == Len(outline) + 1
       IN BuildFrom(sorted_headings, i + 1, Append(outline, node),
                    IF level = 1 THEN at ELSE current_h1,
                    IF level = 1 THEN 0
                    ELSE IF level = 2 /\ current_h1 # 0 THEN at
                    ELSE current_h2)

\* OutlineExtractor._build_outline_structure
build_outline_structure(headings) ==
  IF Len(headings) = 0 THEN <<>>
  ELSE BuildFrom(SortByPosition(headings), 1, <<>>, 0, 0)

\* min(headings, key=level): the first heading of the smallest level
FirstOfMinLevel(headings) ==
  headings[CHOOSE i \in 1..Len(headings) :
             /\ \A j \in 1..Len(headings) : headings[i].level <= headings[j].level
             /\ \A j \in 1..(i - 1) : headings[j].level > headings[i].level]

\* OutlineExtractor._extract_title_from_headings
extract_title_from_headings(headings, text_blocks) ==
  LET nonblank == {i \in 1..Len(text_blocks) : Len(strip(text_blocks[i].text)) > 0}
  IN IF Len(headings) > 0 THEN FirstOfMinLevel(headings).text
     ELSE IF nonblank # {}
     THEN strip(text_blocks[CHOOSE i \in nonblank : \A j \in nonblank : i <= j].text)
     ELSE <<>>

EmptyOutline == [title |-> <<>>, outline |-> <<>>]

Returned(value) == [raised |-> FALSE, value |-> value]

Raised == [raised |-> TRUE, value |-> EmptyOutline]

\* the body of extract_outline without its exception handler
catches_nothing(attempt) == attempt

\* try: ... except Exception: return {"title": "", "outline": []}
catches_exception(attempt) ==
  IF attempt.raised THEN Returned(EmptyOutline) ELSE attempt

\* the try block of OutlineExtractor.extract_outline; an exception is raised
\* at the step `fault` if the call gets there
OutlineAttempt(file_path, file, available, fault) ==
  LET doc_content == extract_document_content(file_path, file, available)
  IN IF fault = "content" \/ doc_content.raised THEN Raised
     ELSE IF Len(doc_content.text_blocks) = 0 THEN Returned(EmptyOutline)
     ELSE IF fault = "title" \/ fault = "outline" THEN Raised
     ELSE Returned([title |-> extract_title_from_headings(doc_content.headings,
                                                          doc_content.text_blocks),
                    outline |-> build_outline_structure(doc_content.headings)])

\* OutlineExtractor.extract_outline
extract_outline(file_path, file, available, fault) ==
  catches_exception(OutlineAttempt(file_path, file, available, fault))

(***************************************************************************)
(* MLOutlineExtractor: the flat outline of classified headings.            *)
(***************************************************************************)
\* r'^\d+\.'
NumberDot(t) ==
  LET a == RunEnd(t, 1, Digits)
  IN a > 1 /\ a <= Len(t) /\ t[a] = "."

\* r'^\d+\.\s*[A-Z]'
NumberedUpper(t) ==
  LET a == RunEnd(t, 1, Digits)
      b == RunEnd(t, a + 1, Whitespace)
  IN NumberDot(t) /\ b <= Len(t) /\ t[b] \in Upper

\* r'^\d+\.\d+\s*[A-Z]': the digits after the dot may give back their tail
\* to nothing but an upper-case letter, so the greedy match decides
SubNumberedUpper(t) ==
  LET a == RunEnd(t, 1, Digits)
      c == RunEnd(t, a + 1, Digits)
      b == RunEnd(t, c, Whitespace)
  IN NumberDot(t) /\ c > a + 1 /\ b <= Len(t) /\ t[b] \in Upper

\* r'^\d+\.\d+\.\d+'
ThreeNumbers(t) ==
  LET a == RunEnd(t, 1, Digits)
      c == RunEnd(t, a + 1, Digits)
  IN NumberDot(t) /\ c > a + 1 /\ c + 1 <= Len(t) /\ t[c] = "." /\ t[c + 1] \in Digits

\* the level the font size of a block gives
FontLevel(font_size) ==
  IF font_size > 16 THEN 1 ELSE IF font_size > 14 THEN 2 ELSE 3

\* the level cap of _determine_heading_level_ml
MaxMlLevel == 3

\* MLOutlineExtractor._determine_heading_level_ml
determine_heading_level_ml(text, confidence, block) ==
  LET text_lower == lower(text)
      level ==
        IF NumberedUpper(text) THEN 1
        ELSE IF \E word \in StructuralKeywords : contains(text_lower, word) THEN 1
        ELSE IF SubNumberedUpper(text) THEN 2
        ELSE IF isupper(text) /\ Len(text) < 50 THEN 2
        ELSE IF ThreeNumbers(text) THEN 3
        ELSE IF confidence < 70 THEN 3
        ELSE FontLevel(block.font_size)
  IN Min(level, MaxMlLevel)

\* the key (page_number, -confidence) of an item is at most that of another
PageConfidenceLeq(a, b) ==
  \/ a.page_number < b.page_number
  \/ a.page_number = b.page_number /\ a.confidence >= b.confidence

RECURSIVE InsertByConfidence(_, _)
InsertByConfidence(sorted, item) ==
  IF Len(sorted) = 0 THEN <<item>>
  ELSE IF PageConfidenceLeq(sorted[Len(sorted)], item) THEN Append(sorted, item)
  ELSE Append(InsertByConfidence(SubSeq(sorted, 1, Len(sorted) - 1), item),
              sorted[Len(sorted)])

\* outline_items.sort(key=lambda x: (x['page_number'], -x['confidence']))
RECURSIVE SortByConfidence(_)
SortByConfidence(items) ==
  IF Len(items) = 0 THEN <<>>
  ELSE InsertByConfidence(SortByConfidence(SubSeq(items, 1, Len(items) - 1)),
                          items[Len(items)])

\* level_mapping.get(level, f"H{min(level, 3)}")
LevelName(level) ==
  IF level = 1 THEN "H1"
  ELSE IF level = 2 THEN "H2"
  ELSE IF level = 3 THEN "H3"
  ELSE IF Min(level, 3) = 1 THEN "H1"
  ELSE IF Min(level, 3) = 2 THEN "H2"
  ELSE "H3"

final_item(item) ==
  [level |-> LevelName(item.level), text |-> item.text, page |-> item.page_number]

\* MLOutlineExtractor._create_hierarchical_structure
create_hierarchical_structure(outline_items) ==
  IF Len(outline_items) = 0 THEN <<>>
  ELSE [i \in 1..Len(outline_items) |-> final_item(SortByConfidence(outline_items)[i])]

\* the answer of the classifier for a text; it is consulted only when loaded
AnswerFor(answers, text) ==
  IF text \in DOMAIN answers THEN answers[text] ELSE NoAnswer

\* the loop of _extract_outline_with_ml: the items of the headings
RECURSIVE OutlineItems(_, _, _)
OutlineItems(text_blocks, loaded, answers) ==
  IF Len(text_blocks) = 0 THEN <<>>
  ELSE LET block == text_blocks[1]
           text == strip(block.text)
           verdict == is_heading_ml(text, loaded, AnswerFor(answers, text))
           rest == OutlineItems(Tail(text_blocks), loaded, answers)
       IN IF Len(text) < 3 THEN rest
          ELSE IF verdict.is_heading
          THEN <<[text |-> text,
                  level |-> determine_heading_level_ml(text, verdict.confidence, block),
                  page_number |-> block.page_num,
                  confidence |-> verdict.confidence]>> \o rest
          ELSE rest

\* MLOutlineExtractor._extract_outline_with_ml
extract_outline_with_ml(text_blocks, loaded, answers) ==
  create_hierarchical_structure(OutlineItems(text_blocks, loaded, answers))

\* r'^[A-Z][a-z]+(\s+[A-Z][a-z]+)*$'
TitleCase(t) ==
  LET words == split(t)
  IN /\ Len(t) > 0 /\ t[1] \notin Whitespace /\ t[Len(t)] \notin Whitespace
     /\ \A i \in 1..Len(words) : TitleWord(words[i])

\* r'^[A-Z\s]+$'
AllCaps(t) == Len(t) > 0 /\ \A i \in 1..Len(t) : t[i] \in Upper \cup Whitespace

\* r'^\w+:'
ColonTerminated(t) ==
  LET a == RunEnd(t, 1, WordChars)
  IN a > 1 /\ a <= Len(t) /\ t[a] = ":"

\* is_likely_heading of pdf_utils
is_likely_heading(text) ==
  LET t == strip(text)
  IN IF Len(text) = 0 \/ Len(t) < 3 THEN FALSE
     ELSE \/ NumberDot(t) \/ TitleCase(t) \/ AllCaps(t) \/ ColonTerminated(t)
          \/ (Len(t) < 80 /\ ~endswith(t, "."))

\* the blocks of text_blocks[:n] whose text the first loop of _extract_title returns
TitleBlocks(text_blocks, loaded, answers) ==
  {i \in 1..Min(Len(text_blocks), 5) :
     LET text == strip(text_blocks[i].text)
         verdict == is_heading_ml(text, loaded, AnswerFor(answers, text))
     IN /\ Len(text) >= 5
        /\ verdict.is_heading /\ verdict.confidence > 80
        /\ Len(text) > 10 /\ Len(text) < 100
        /\ ~endswith(text, ".") /\ ~NumberDot(text)}

\* the blocks of text_blocks[:10] whose text the fallback loop returns
FallbackBlocks(text_blocks) ==
  {i \in 1..Min(Len(text_blocks), 10) : is_likely_heading(strip(text_blocks[i].text))}

First(indices) == CHOOSE i \in indices : \A j \in indices : i <= j

\* MLOutlineExtractor._extract_title
extract_title(text_blocks, loaded, answers) ==
  IF Len(text_blocks) = 0 THEN <<>>
  ELSE IF TitleBlocks(text_blocks, loaded, answers) # {}
  THEN strip(text_blocks[First(TitleBlocks(text_blocks, loaded, answers))].text)
  ELSE IF FallbackBlocks(text_blocks) # {}
  THEN strip(text_blocks[First(FallbackBlocks(text_blocks))].text)
  ELSE <<>>

\* the try block of MLOutlineExtractor.extract_outline
MlOutlineAttempt(file_path, file, available, loaded, answers, fault) ==
  LET doc_content == extract_document_content(file_path, file, available)
  IN IF fault = "content" \/ doc_content.raised THEN Raised
     ELSE IF Len(doc_content.text_blocks) = 0 THEN Returned(EmptyOutline)
     ELSE IF fault = "outline" \/ fault = "title" THEN Raised
     ELSE Returned([title |-> extract_title(doc_content.text_blocks, loaded, answers),
                    outline |-> extract_outline_with_ml(doc_content.text_blocks,
                                                        loaded, answers)])

\* MLOutlineExtractor.extract_outline
ml_extract_outline(file_path, file, available, loaded, answers, fault) ==
  catches_exception(MlOutlineAttempt(file_path, file, available, loaded, answers, fault))

(***************************************************************************)
(* Calls of extract_outline.                                               *)
(***************************************************************************)
\* the most lines or fragments a file of the model has
MaxBlocks == 2

\* the pages of a PDF of the model
PdfPages == {1, 2}

\* the lines of the text files and the texts of the PDF fragments
OutlineLines ==
  { <<"1", ".", "2", ".", "3", ".", " ", "T", "i", "t", "l", "e">>,
    <<"1", ".", " ", "I", "n", "t", "r", "o">>,
    <<"R", "E", "S", "U", "L", "T", "S", ".">>,
    <<"P", "r", "o", "j", "e", "c", "t", " ", "O", "v", "e", "r", "v", "i", "e", "w">>,
    <<"I", "t", " ", "w", "o", "r", "k", "s", ".">>,
    <<" ", " ", "*", " ", "S", "c", "o", "p", "e", " ">>,
    <<" ">> }

TxtPath == <<"a", ".", "t", "x", "t">>

PdfPath == <<"a", ".", "P", "D", "F">>

OtherPath == <<"a", ".", "d", "o", "c">>

OutlinePaths == {TxtPath, PdfPath, OtherPath}

SeqsUpTo(S, n) == UNION {[1..k -> S] : k \in 0..n}

\* a file that does not exist or cannot be opened
MissingFile == [readable |-> FALSE, lines |-> <<>>, fragments |-> <<>>]

TextFiles ==
  {[readable |-> TRUE, lines |-> lines, fragments |-> <<>>] :
     lines \in SeqsUpTo(OutlineLines, MaxBlocks)}

\* PyMuPDF yields the fragments page by page
PageSeqs(k) ==
  {pages \in [1..k -> PdfPages] : \A i \in 1..(k - 1) : pages[i] <= pages[i + 1]}

\* the fragments of a page come top-down or bottom-up
PdfLayouts == {"down", "up"}

Fragments(texts, pages, layout) ==
  [i \in 1..Len(texts) |->
     [text |-> texts[i], page |-> pages[i],
      y |-> IF layout = "down" THEN (i - 1) * LineHeight
            ELSE (Len(texts) - i) * LineHeight]]

PdfFiles ==
  {[readable |-> TRUE, lines |-> <<>>, fragments |-> Fragments(texts, pages, layout)] :
     texts \in SeqsUpTo(OutlineLines, MaxBlocks), pages \in PageSeqs(MaxBlocks),
     layout \in PdfLayouts}

\* the files a path can name
FilesAt(path) ==
  IF path = TxtPath THEN TextFiles \cup {MissingFile}
  ELSE IF path = PdfPath THEN PdfFiles \cup {MissingFile}
  ELSE {MissingFile}

OutlineFaults == {"none", "content", "title", "outline"}

\* the answers of the classifier in the calls of the model
OutlineAnswers ==
  {a \in ClassifierAnswers : a.kind = "raise" \/ (a.kind = "score" /\ a.score \in {50, 90})}

\* the texts is_heading_ml is asked about in a call
AskedTexts(extractor, path, file, available, loaded, fault) ==
  IF extractor = "ml" /\ loaded /\ fault = "none"
  THEN LET text_blocks == extract_document_content(path, file, available).text_blocks
       IN {strip(text_blocks[i].text) : i \in 1..Len(text_blocks)}
  ELSE {}

OutlineIdle ==
  /\ oExtractor = "basic"
  /\ oPath = <<>>
  /\ oFile = MissingFile
  /\ oAnswers = <<>>
  /\ oFault = "none"
  /\ oResult = EmptyOutline
  /\ oRaised = FALSE
  /\ oCalled = FALSE

\* OutlineExtractor.extract_outline(file_path)
CallExtractOutline ==
  /\ oCalled = FALSE
  /\ \E path \in OutlinePaths, fault \in OutlineFaults :
    \E file \in FilesAt(path) :
      LET r == extract_outline(path, file, pymupdf, fault)
      IN /\ oExtractor' = "basic"
         /\ oPath' = path
         /\ oFile' = file
         /\ oAnswers' = <<>>
         /\ oFault' = fault
         /\ oResult' = r.value
         /\ oRaised' = r.raised
         /\ oCalled' = TRUE
         /\ UNCHANGED <<classifier, pymupdf>>
         /\ UNCHANGED exceptOutline

\* MLOutlineExtractor.extract_outline(pdf_path)
CallMlExtractOutline ==
  /\ oCalled = FALSE
  /\ \E path \in OutlinePaths, fault \in OutlineFaults :
    \E file \in FilesAt(path) :
      \E answers \in [AskedTexts("ml", path, file, pymupdf, classifier, fault)
                        -> OutlineAnswers] :
        LET r == ml_extract_outline(path, file, pymupdf, classifier, answers, fault)
        IN /\ oExtractor' = "ml"
           /\ oPath' = path
           /\ oFile' = file
           /\ oAnswers' = answers
           /\ oFault' = fault
           /\ oResult' = r.value
           /\ oRaised' = r.raised
           /\ oCalled' = TRUE
           /\ UNCHANGED <<classifier, pymupdf>>
           /\ UNCHANGED exceptOutline

\* the caller has taken the outline; the extractor is ready for the next file
ReturnExtractOutline ==
  /\ oCalled = TRUE
  /\ oExtractor' = "basic"
  /\ oPath' = <<>>
  /\ oFile' = MissingFile
  /\ oAnswers' = <<>>
  /\ oFault' = "none"
  /\ oResult' = EmptyOutline
  /\ oRaised' = FALSE
  /\ oCalled' = FALSE
  /\ UNCHANGED <<classifier, pymupdf>>
  /\ UNCHANGED exceptOutline

(***************************************************************************)
(* SectionExtractor: the sections of a document, from its outline or, when *)
(* it has none, from its pages.                                            *)
(***************************************************************************)
\* SectionExtractor._is_title_match
is_title_match(block_text, title) ==
  LET block_clean == lower(clean_text(block_text))
      title_clean == lower(title)
      title_words == split(title_clean)
      matches == Cardinality({i \in 1..Len(title_words) :
                                contains(block_clean, title_words[i])})
  IN IF contains(block_clean, title_clean) THEN TRUE
     ELSE IF Len(title_words) > 1 THEN matches * 10 >= Len(title_words) * 7
     ELSE FALSE

\* the loop of _extract_section_content from block i on: the texts collected.
\* next_items holds the next item of the list, if there is one; without one
\* end_page is infinite.
RECURSIVE ContentBlocks(_, _, _, _, _, _)
ContentBlocks(text_blocks, i, title, start_page, next_items, title_found) ==
  IF i > Len(text_blocks) THEN <<>>
  ELSE LET block == text_blocks[i]
       IN IF block.page_num < start_page
          THEN ContentBlocks(text_blocks, i + 1, title, start_page, next_items, title_found)
          ELSE IF Len(next_items) > 0 /\ block.page_num >= next_items[1].page_number
          THEN <<>>
          ELSE IF ~title_found
          THEN ContentBlocks(text_blocks, i + 1, title, start_page, next_items,
                             is_title_match(block.text, title))
          ELSE <<block.text>>
                 \o ContentBlocks(text_blocks, i + 1, title, start_page, next_items, TRUE)

\* SectionExtractor._extract_section_content
extract_section_content(title, start_page, text_blocks, next_items) ==
  clean_text(join(ContentBlocks(text_blocks, 1, title, start_page, next_items, FALSE)))

\* outline_items[i+1] if i+1 < len(outline_items) else None: the next item of
\* the list, if there is one
NextItems(outline_items, i) ==
  IF i + 1 <= Len(outline_items) THEN <<outline_items[i + 1]>> ELSE <<>>

\* the section dictionary
Section(title, level, page, content, pdf_path, words) ==
  [title |-> title, level |-> level, page |-> page, content |-> content,
   document |-> pdf_path, word_count |-> Len(split(words))]

\* the loop of _create_sections_from_outline from item i on
RECURSIVE SectionsFrom(_, _, _, _)
SectionsFrom(outline_items, i, text_blocks, pdf_path) ==
  IF i > Len(outline_items) THEN <<>>
  ELSE LET item == outline_items[i]
           content == extract_section_content(item.section_title, item.page_number,
                                              text_blocks,
                                              NextItems(outline_items, i))
           rest == SectionsFrom(outline_items, i + 1, text_blocks, pdf_path)
       IN IF Len(item.section_title) = 0 THEN rest
          ELSE IF Len(content) > 0
          THEN <<Section(item.section_title, item.level, item.page_number, content,
                         pdf_path, content)>> \o rest
          ELSE rest

\* SectionExtractor._create_sections_from_outline
create_sections_from_outline(outline_items, text_blocks, pdf_path) ==
  SectionsFrom(outline_items, 1, text_blocks, pdf_path)

\* the keys of the pages dictionary, in the order of their first block
RECURSIVE PageKeys(_, _)
PageKeys(text_blocks, seen) ==
  IF Len(text_blocks) = 0 THEN <<>>
  ELSE IF text_blocks[1].page_num \in seen THEN PageKeys(Tail(text_blocks), seen)
  ELSE <<text_blocks[1].page_num>>
         \o PageKeys(Tail(text_blocks), seen \cup {text_blocks[1].page_num})

\* pages[page_num]: the blocks of a page, in the order of the document
RECURSIVE PageBlocks(_, _)
PageBlocks(text_blocks, page_num) ==
  IF Len(text_blocks) = 0 THEN <<>>
  ELSE IF text_blocks[1].page_num = page_num
  THEN <<text_blocks[1]>> \o PageBlocks(Tail(text_blocks), page_num)
  ELSE PageBlocks(Tail(text_blocks), page_num)

\* [block.text for block in blocks]
TextsOfBlocks(blocks) == [i \in 1..Len(blocks) |-> blocks[i].text]

\* the blocks of sorted_blocks[:5] whose text _extract_page_title returns
PageTitleBlocks(sorted_blocks) ==
  {i \in 1..Min(Len(sorted_blocks), 5) :
     LET text == strip(sorted_blocks[i].text)
     IN Len(text) > 5 /\ Len(text) < 100 /\ is_likely_heading(text)}

\* SectionExtractor._extract_page_title; the blocks of one page sorted by
\* bbox[1] are the blocks sorted by (page_num, bbox[1])
extract_page_title(blocks) ==
  LET sorted_blocks == SortByPosition(blocks)
  IN IF PageTitleBlocks(sorted_blocks) = {} THEN <<>>
     ELSE clean_text(strip(sorted_blocks[First(PageTitleBlocks(sorted_blocks))].text))

\* the least length of the text of a page that makes a section
MinPageText == 100

DigitSeq == <<"0", "1", "2", "3", "4", "5", "6", "7", "8", "9">>

\* f"Page {page_num} Content", for the pages of one digit
PageContent(page_num) ==
  <<"P", "a", "g", "e", " ">> \o <<DigitSeq[page_num + 1]>>
    \o <<" ", "C", "o", "n", "t", "e", "n", "t">>

\* the loop of _create_sections_from_content over the pages
RECURSIVE PageSections(_, _, _)
PageSections(page_nums, text_blocks, pdf_path) ==
  IF Len(page_nums) = 0 THEN <<>>
  ELSE LET page_num == page_nums[1]
           blocks == PageBlocks(text_blocks, page_num)
           page_text == join(TextsOfBlocks(blocks))
           title == extract_page_title(blocks)
           rest == PageSections(Tail(page_nums), text_blocks, pdf_path)
       IN IF Len(strip(page_text)) > MinPageText
          THEN <<Section(IF Len(title) > 0 THEN title ELSE PageContent(page_num), 1,
                         page_num, clean_text(page_text), pdf_path, page_text)>> \o rest
          ELSE rest

\* SectionExtractor._create_sections_from_content
create_sections_from_content(text_blocks, pdf_path) ==
  PageSections(PageKeys(text_blocks, {}), text_blocks, pdf_path)

\* outline_data.get("outline", []): the items of the top-level list
IsTopLevel(node) == node.parent = 0

outline_items_of(outline_data) == SelectSeq(outline_data.outline, IsTopLevel)

\* SectionExtractor.extract_sections(pdf_path): the exception of a document
\* that cannot be read is caught and gives no section
extract_sections_of(pdf_path, file, available) ==
  LET outline_data == extract_outline(pdf_path, file, available, "none").value
      doc_content == extract_document_content(pdf_path, file, available)
      text_blocks == doc_content.text_blocks
      outline_items == outline_items_of(outline_data)
  IN IF doc_content.raised THEN <<>>
     ELSE IF Len(text_blocks) = 0 THEN <<>>
     ELSE IF Len(outline_items) > 0
     THEN create_sections_from_outline(outline_items, text_blocks, pdf_path)
     ELSE create_sections_from_content(text_blocks, pdf_path)
(***************************************************************************)
(* Calls of SectionExtractor.extract_sections.                             *)
(***************************************************************************)
\* the most lines or fragments a document handed to extract_sections has
MaxFragments == 4

\* a line longer than MinPageText in which no heading is detected
LongLine == [i \in 1..(MinPageText + 1) |-> "x"]

\* the lines of the text files and the texts of the PDF fragments: two
\* headings of level 1, one of level 2, two lines of body text, the second
\* of which names the first heading, and a long line
SectionLines ==
  { <<"1", " ", "I", "n", "t", "r", "o">>,
    <<"2", " ", "P", "l", "a", "n">>,
    <<"S", "c", "o", "p", "e">>,
    <<"I", "t", " ", "w", "o", "r", "k", "s", ".">>,
    <<"S", "e", "e", " ", "1", " ", "i", "n", "t", "r", "o", ".">>,
    LongLine }

SectionTextFiles(most) ==
  {[readable |-> TRUE, lines |-> lines, fragments |-> <<>>] :
     lines \in SeqsUpTo(SectionLines, most)}

SectionPdfFiles(most) ==
  {[readable |-> TRUE, lines |-> <<>>, fragments |-> Fragments(texts, pages, layout)] :
     texts \in SeqsUpTo(SectionLines, most), pages \in PageSeqs(most),
     layout \in PdfLayouts}

\* the files a path handed to extract_sections can name
SectionFilesAt(path, most) ==
  IF path = TxtPath THEN SectionTextFiles(most) \cup {MissingFile}
  ELSE IF path = PdfPath THEN SectionPdfFiles(most) \cup {MissingFile}
  ELSE {MissingFile}

SectionsIdle ==
  /\ xPath = <<>>
  /\ xFile = MissingFile
  /\ xSections = <<>>
  /\ xCalled = FALSE

\* SectionExtractor.extract_sections(pdf_path)
CallExtractSections ==
  /\ xCalled = FALSE
  /\ \E path \in OutlinePaths :
       \E file \in SectionFilesAt(path, MaxFragments) :
         /\ xPath' = path
         /\ xFile' = file
         /\ xSections' = extract_sections_of(path, file, pymupdf)
         /\ xCalled' = TRUE
  /\ UNCHANGED exceptSections

\* the caller has taken the sections
ReturnExtractSections ==
  /\ xCalled = TRUE
  /\ xPath' = <<>>
  /\ xFile' = MissingFile
  /\ xSections' = <<>>
  /\ xCalled' = FALSE
  /\ UNCHANGED exceptSections
(***************************************************************************)
(* Calls of the two outline builders on detected headings of any level.    *)
(***************************************************************************)
\* the most headings handed to a builder
MaxHeadings == 3

\* the deepest level of a heading handed to a builder
MaxLevel == 4

\* the texts of the headings, one per position of detection
HeadingNames == <<<<"A">>, <<"B">>, <<"C">>, <<"D">>, <<"E">>>>

\* (page_num, bbox[1]) of a heading
BuilderPositions == {<<1, 0>>, <<1, 20>>, <<2, 0>>}

\* (page_number, confidence) of an outline item
BuilderConfidences == {<<1, 90>>, <<1, 70>>, <<2, 90>>}

\* the headings detect_headings_from_text hands to _build_outline_structure,
\* at most `most` of them
DetectedHeadings(most) ==
  UNION {{[i \in 1..k |-> [text |-> HeadingNames[i], level |-> levels[i],
                           page_num |-> positions[i][1], y |-> positions[i][2]]] :
            levels \in [1..k -> 1..MaxLevel], positions \in [1..k -> BuilderPositions]} :
         k \in 0..most}

\* the items _extract_outline_with_ml hands to _create_hierarchical_structure,
\* at most `most` of them
OutlineItemLists(most) ==
  UNION {{[i \in 1..k |-> [text |-> HeadingNames[i], level |-> levels[i],
                           page_number |-> positions[i][1],
                           confidence |-> positions[i][2]]] :
            levels \in [1..k -> 1..MaxLevel], positions \in [1..k -> BuilderConfidences]} :
         k \in 0..most}

BuilderIdle ==
  /\ bBuilder = "basic"
  /\ bHeadings = <<>>
  /\ bOutline = <<>>
  /\ bCalled = FALSE

\* OutlineExtractor._build_outline_structure(headings)
CallBuildOutlineStructure ==
  /\ bCalled = FALSE
  /\ \E headings \in DetectedHeadings(MaxHeadings) :
       /\ bBuilder' = "basic"
       /\ bHeadings' = headings
       /\ bOutline' = build_outline_structure(headings)
       /\ bCalled' = TRUE
  /\ UNCHANGED exceptBuilder

\* MLOutlineExtractor._create_hierarchical_structure(outline_items)
CallCreateHierarchicalStructure ==
  /\ bCalled = FALSE
  /\ \E outline_items \in OutlineItemLists(MaxHeadings) :
       /\ bBuilder' = "ml"
       /\ bHeadings' = outline_items
       /\ bOutline' = create_hierarchical_structure(outline_items)
       /\ bCalled' = TRUE
  /\ UNCHANGED exceptBuilder

\* the caller has taken the outline
ReturnBuilder ==
  /\ bCalled = TRUE
  /\ bBuilder' = "basic"
  /\ bHeadings' = <<>>
  /\ bOutline' = <<>>
  /\ bCalled' = FALSE
  /\ UNCHANGED exceptBuilder

(***************************************************************************)
(* The keyword tables of the two relevance rankers.                        *)
(***************************************************************************)
\* role_keywords of RelevanceRanker._get_role_keywords (keys, in order)
RankerRoleNames ==
  << <<"r", "e", "s", "e", "a", "r", "c", "h", "e", "r">>,
     <<"s", "t", "u", "d", "e", "n", "t">>,
     <<"a", "n", "a", "l", "y", "s", "t">>,
     <<"j", "o", "u", "r", "n", "a", "l", "i", "s", "t">>,
     <<"e", "n", "t", "r", "e", "p", "r", "e", "n", "e", "u", "r">>,
     <<"d", "e", "v", "e", "l", "o", "p", "e", "r">>,
     <<"m", "a", "n", "a", "g", "e", "r">> >>

\* role_keywords of RelevanceRanker._get_role_keywords (values, in order)
RankerRoleKeywords ==
  <<
     << <<"r", "e", "s", "e", "a", "r", "c", "h">>,
        <<"s", "t", "u", "d", "y">>,
        <<"a", "n", "a", "l", "y", "s", "i", "s">>,
        <<"m", "e", "t", "h", "o", "d", "o", "l", "o", "g", "y">>,
        <<"f", "i", "n", "d", "i", "n", "g", "s">>,
        <<"l", "i", "t", "e", "r", "a", "t", "u", "r", "e">>,
        <<"h", "y", "p", "o", "t", "h", "e", "s", "i", "s">>,
        <<"e", "x", "p", "e", "r", "i", "m", "e", "n", "t">> >>,
     << <<"l", "e", "a", "r", "n">>,
        <<"u", "n", "d", "e", "r", "s", "t", "a", "n", "d">>,
        <<"c", "o", "n", "c", "e", "p", "t">>,
        <<"t", "h", "e", "o", "r", "y">>,
        <<"p", "r", "a", "c", "t", "i", "c", "e">>,
        <<"e", "x", "e", "r", "c", "i", "s", "e">>,
        <<"e", "x", "a", "m", "p", "l", "e">>,
        <<"e", "x", "p", "l", "a", "n", "a", "t", "i", "o", "n">> >>,
     << <<"a", "n", "a", "l", "y", "z", "e">>,
        <<"d", "a", "t", "a">>,
        <<"t", "r", "e", "n", "d">>,
        <<"m", "e", "t", "r", "i", "c">>,
        <<"p", "e", "r", "f", "o", "r", "m", "a", "n", "c", "e">>,
        <<"b", "e", "n", "c", "h", "m", "a", "r", "k">>,
        <<"c", "o", "m", "p", "a", "r", "i", "s", "o", "n">>,
        <<"i", "n", "s", "i", "g", "h", "t">> >>,
     << <<"r", "e", "p", "o", "r", "t">>,
        <<"n", "e", "w", "s">>,
        <<"s", "t", "o", "r", "y">>,
        <<"s", "o", "u", "r", "c", "e">>,
        <<"i", "n", "t", "e", "r", "v", "i", "e", "w">>,
        <<"i", "n", "v", "e", "s", "t", "i", "g", "a", "t", "i", "o", "n">>,
        <<"f", "a", "c", "t">>,
        <<"e", "v", "i", "d", "e", "n", "c", "e">> >>,
     << <<"b", "u", "s", "i", "n", "e", "s", "s">>,
        <<"o", "p", "p", "o", "r", "t", "u", "n", "i", "t", "y">>,
        <<"m", "a", "r", "k", "e", "t">>,
        <<"s", "t", "r", "a", "t", "e", "g", "y">>,
        <<"g", "r", "o", "w", "t", "h">>,
        <<"i", "n", "n", "o", "v", "a", "t", "i", "o", "n">>,
        <<"v", "e", "n", "t", "u", "r", "e">>,
        <<"c", "o", "m", "p", "e", "t", "i", "t", "i", "v", "e">> >>,
     << <<"c", "o", "d", "e">>,
        <<"i", "m", "p", "l", "e", "m", "e", "n", "t", "a", "t", "i", "o", "n">>,
        <<"s", "y", "s", "t", "e", "m">>,
        <<"a", "r", "c", "h", "i", "t", "e", "c", "t", "u", "r", "e">>,
        <<"f", "r", "a", "m", "e", "w", "o", "r", "k">>,
        <<"l", "i", "b", "r", "a", "r", "y">>,
        <<"a", "p", "i">>,
        <<"t", "e", "c", "h", "n", "i", "c", "a", "l">> >>,
     << <<"t", "e", "a", "m">>,
        <<"p", "r", "o", "j", "e", "c", "t">>,
        <<"p", "l", "a", "n", "n", "i", "n", "g">>,
        <<"e", "x", "e", "c", "u", "t", "i", "o", "n">>,
        <<"s", "t", "r", "a", "t", "e", "g", "y">>,
        <<"l", "e", "a", "d", "e", "r", "s", "h", "i", "p">>,
        <<"o", "p", "e", "r", "a", "t", "i", "o", "n", "s">>,
        <<"c", "o", "o", "r", "d", "i", "n", "a", "t", "i", "o", "n">> >> >>

\* domain_keywords of RelevanceRanker._get_domain_keywords (keys, in order)
RankerDomainNames ==
  << <<"t", "e", "c", "h", "n", "o", "l", "o", "g", "y">>,
     <<"b", "i", "o", "l", "o", "g", "y">>,
     <<"c", "h", "e", "m", "i", "s", "t", "r", "y">>,
     <<"f", "i", "n", "a", "n", "c", "e">>,
     <<"b", "u", "s", "i", "n", "e", "s", "s">>,
     <<"e", "d", "u", "c", "a", "t", "i", "o", "n">>,
     <<"e", "n", "g", "i", "n", "e", "e", "r", "i", "n", "g">>,
     <<"l", "a", "w">> >>

\* domain_keywords of RelevanceRanker._get_domain_keywords (values, in order)
RankerDomainKeywords ==
  <<
     << <<"s", "o", "f", "t", "w", "a", "r", "e">>,
        <<"h", "a", "r", "d", "w", "a", "r", "e">>,
        <<"d", "i", "g", "i", "t", "a", "l">>,
        <<"c", "o", "m", "p", "u", "t", "e", "r">>,
        <<"i", "n", "t", "e", "r", "n", "e", "t">>,
        <<"a", "i">>,
        <<"m", "a", "c", "h", "i", "n", "e", " ", "l", "e", "a", "r", "n", "i", "n", "g">>,
        <<"d", "a", "t", "a">> >>,
     << <<"c", "e", "l", "l">>,
        <<"o", "r", "g", "a", "n", "i", "s", "m">>,
        <<"g", "e", "n", "e">>,
        <<"p", "r", "o", "t", "e", "i", "n">>,
        <<"e", "v", "o", "l", "u", "t", "i", "o", "n">>,
        <<"e", "c", "o", "s", "y", "s", "t", "e", "m">>,
        <<"s", "p", "e", "c", "i", "e", "s">>,
        <<"m", "o", "l", "e", "c", "u", "l", "a", "r">> >>,
     << <<"m", "o", "l", "e", "c", "u", "l", "e">>,
        <<"r", "e", "a", "c", "t", "i", "o", "n">>,
        <<"c", "o", "m", "p", "o", "u", "n", "d">>,
        <<"e", "l", "e", "m", "e", "n", "t">>,
        <<"b", "o", "n", "d">>,
        <<"s", "y", "n", "t", "h", "e", "s", "i", "s">>,
        <<"c", "a", "t", "a", "l", "y", "s", "t">>,
        <<"o", "r", "g", "a", "n", "i", "c">> >>,
     << <<"i", "n", "v", "e", "s", "t", "m", "e", "n", "t">>,
        <<"r", "e", "v", "e", "n", "u", "e">>,
        <<"p", "r", "o", "f", "i", "t">>,
        <<"m", "a", "r", "k", "e", "t">>,
        <<"f", "i", "n", "a", "n", "c", "i", "a", "l">>,
        <<"e", "c", "o", "n", "o", "m", "i", "c">>,
        <<"c", "a", "p", "i", "t", "a", "l">>,
        <<"a", "s", "s", "e", "t">> >>,
     << <<"m", "a", "n", "a", "g", "e", "m", "e", "n", "t">>,
        <<"s", "t", "r", "a", "t", "e", "g", "y">>,
        <<"m", "a", "r", "k", "e", "t", "i", "n", "g">>,
        <<"s", "a", "l", "e", "s">>,
        <<"c", "u", "s", "t", "o", "m", "e", "r">>,
        <<"p", "r", "o", "d", "u", "c", "t">>,
        <<"s", "e", "r", "v", "i", "c", "e">>,
        <<"o", "p", "e", "r", "a", "t", "i", "o", "n">> >>,
     << <<"t", "e", "a", "c", "h", "i", "n", "g">>,
        <<"l", "e", "a", "r", "n", "i", "n", "g">>,
        <<"c", "u", "r", "r", "i", "c", "u", "l", "u", "m">>,
        <<"a", "s", "s", "e", "s", "s", "m", "e", "n", "t">>,
        <<"p", "e", "d", "a", "g", "o", "g", "y">>,
        <<"i", "n", "s", "t", "r", "u", "c", "t", "i", "o", "n">>,
        <<"a", "c", "a", "d", "e", "m", "i", "c">>,
        <<"s", "c", "h", "o", "o", "l">> >>,
     << <<"d", "e", "s", "i", "g", "n">>,
        <<"s", "y", "s", "t", "e", "m">>,
        <<"p", "r", "o", "c", "e", "s", "s">>,
        <<"o", "p", "t", "i", "m", "i", "z", "a", "t", "i", "o", "n">>,
        <<"m", "a", "n", "u", "f", "a", "c", "t", "u", "r", "i", "n", "g">>,
        <<"c", "o", "n", "s", "t", "r", "u", "c", "t", "i", "o", "n">>,
        <<"t", "e", "c", "h", "n", "i", "c", "a", "l">>,
        <<"s", "p", "e", "c", "i", "f", "i", "c", "a", "t", "i", "o", "n">> >>,
     << <<"l", "e", "g", "a", "l">>,
        <<"r", "e", "g", "u", "l", "a", "t", "i", "o", "n">>,
        <<"c", "o", "m", "p", "l", "i", "a", "n", "c", "e">>,
        <<"c", "o", "n", "t", "r", "a", "c", "t">>,
        <<"l", "i", "a", "b", "i", "l", "i", "t", "y">>,
        <<"c", "o", "u", "r", "t">>,
        <<"s", "t", "a", "t", "u", "t", "e">>,
        <<"p", "r", "e", "c", "e", "d", "e", "n", "t">> >> >>

\* job_keywords of RelevanceRanker._get_job_type_keywords (keys, in order)
JobTypeNames ==
  << <<"r", "e", "v", "i", "e", "w">>,
     <<"s", "u", "m", "m", "a", "r", "i", "z", "e">>,
     <<"c", "o", "m", "p", "a", "r", "e">>,
     <<"i", "d", "e", "n", "t", "i", "f", "y">>,
     <<"p", "r", "e", "p", "a", "r", "e">>,
     <<"l", "e", "a", "r", "n">> >>

\* job_keywords of RelevanceRanker._get_job_type_keywords (values, in order)
JobTypeKeywords ==
  <<
     << <<"r", "e", "v", "i", "e", "w">>,
        <<"e", "v", "a", "l", "u", "a", "t", "e">>,
        <<"a", "s", "s", "e", "s", "s">>,
        <<"c", "r", "i", "t", "i", "q", "u", "e">>,
        <<"e", "x", "a", "m", "i", "n", "a", "t", "i", "o", "n">>,
        <<"a", "n", "a", "l", "y", "s", "i", "s">>,
        <<"o", "v", "e", "r", "v", "i", "e", "w">>,
        <<"s", "u", "m", "m", "a", "r", "y">> >>,
     << <<"s", "u", "m", "m", "a", "r", "y">>,
        <<"o", "v", "e", "r", "v", "i", "e", "w">>,
        <<"b", "r", "i", "e", "f">>,
        <<"a", "b", "s", "t", "r", "a", "c", "t">>,
        <<"c", "o", "n", "d", "e", "n", "s", "e", "d">>,
        <<"k", "e", "y", " ", "p", "o", "i", "n", "t", "s">>,
        <<"m", "a", "i", "n", " ", "i", "d", "e", "a", "s">>,
        <<"s", "y", "n", "o", "p", "s", "i", "s">> >>,
     << <<"c", "o", "m", "p", "a", "r", "e">>,
        <<"c", "o", "n", "t", "r", "a", "s", "t">>,
        <<"d", "i", "f", "f", "e", "r", "e", "n", "c", "e">>,
        <<"s", "i", "m", "i", "l", "a", "r", "i", "t", "y">>,
        <<"v", "e", "r", "s", "u", "s">>,
        <<"b", "e", "n", "c", "h", "m", "a", "r", "k">>,
        <<"r", "e", "l", "a", "t", "i", "v", "e">>,
        <<"c", "o", "m", "p", "a", "r", "i", "s", "o", "n">> >>,
     << <<"i", "d", "e", "n", "t", "i", "f", "y">>,
        <<"f", "i", "n", "d">>,
        <<"l", "o", "c", "a", "t", "e">>,
        <<"d", "i", "s", "c", "o", "v", "e", "r">>,
        <<"d", "e", "t", "e", "c", "t">>,
        <<"r", "e", "c", "o", "g", "n", "i", "z", "e">>,
        <<"d", "e", "t", "e", "r", "m", "i", "n", "e">>,
        <<"s", "p", "e", "c", "i", "f", "y">> >>,
     << <<"p", "r", "e", "p", "a", "r", "e">>,
        <<"c", "r", "e", "a", "t", "e">>,
        <<"d", "e", "v", "e", "l", "o", "p">>,
        <<"b", "u", "i", "l", "d">>,
        <<"d", "e", "s", "i", "g", "n">>,
        <<"c", "o", "n", "s", "t", "r", "u", "c", "t">>,
        <<"f", "o", "r", "m", "u", "l", "a", "t", "e">>,
        <<"e", "s", "t", "a", "b", "l", "i", "s", "h">> >>,
     << <<"l", "e", "a", "r", "n">>,
        <<"u", "n", "d", "e", "r", "s", "t", "a", "n", "d">>,
        <<"s", "t", "u", "d", "y">>,
        <<"m", "a", "s", "t", "e", "r">>,
        <<"c", "o", "m", "p", "r", "e", "h", "e", "n", "d">>,
        <<"g", "r", "a", "s", "p">>,
        <<"a", "c", "q", "u", "i", "r", "e">>,
        <<"a", "b", "s", "o", "r", "b">> >> >>

\* role_keywords of MLRelevanceRanker._get_role_keywords (keys, in order)
MlRoleNames ==
  << <<"r", "e", "s", "e", "a", "r", "c", "h", "e", "r">>,
     <<"s", "t", "u", "d", "e", "n", "t">>,
     <<"a", "n", "a", "l", "y", "s", "t">>,
     <<"e", "n", "g", "i", "n", "e", "e", "r">>,
     <<"m", "a", "n", "a", "g", "e", "r">>,
     <<"d", "e", "v", "e", "l", "o", "p", "e", "r">>,
     <<"t", "r", "a", "v", "e", "l", " ", "p", "l", "a", "n", "n", "e", "r">>,
     <<"t", "o", "u", "r", "i", "s", "t">>,
     <<"t", "r", "a", "v", "e", "l", "e", "r">> >>

\* role_keywords of MLRelevanceRanker._get_role_keywords (values, in order)
MlRoleKeywords ==
  <<
     << <<"r", "e", "s", "e", "a", "r", "c", "h">>,
        <<"s", "t", "u", "d", "y">>,
        <<"a", "n", "a", "l", "y", "s", "i", "s">>,
        <<"m", "e", "t", "h", "o", "d", "o", "l", "o", "g", "y">>,
        <<"e", "x", "p", "e", "r", "i", "m", "e", "n", "t">>,
        <<"f", "i", "n", "d", "i", "n", "g", "s">>,
        <<"r", "e", "s", "u", "l", "t", "s">> >>,
     << <<"l", "e", "a", "r", "n", "i", "n", "g">>,
        <<"e", "d", "u", "c", "a", "t", "i", "o", "n">>,
        <<"c", "o", "u", "r", "s", "e">>,
        <<"a", "s", "s", "i", "g", "n", "m", "e", "n", "t">>,
        <<"e", "x", "a", "m">>,
        <<"s", "t", "u", "d", "y">>,
        <<"t", "u", "t", "o", "r", "i", "a", "l">> >>,
     << <<"a", "n", "a", "l", "y", "s", "i", "s">>,
        <<"d", "a", "t", "a">>,
        <<"m", "e", "t", "r", "i", "c", "s">>,
        <<"i", "n", "s", "i", "g", "h", "t", "s">>,
        <<"t", "r", "e", "n", "d", "s">>,
        <<"e", "v", "a", "l", "u", "a", "t", "i", "o", "n">>,
        <<"a", "s", "s", "e", "s", "s", "m", "e", "n", "t">> >>,
     << <<"t", "e", "c", "h", "n", "i", "c", "a", "l">>,
        <<"i", "m", "p", "l", "e", "m", "e", "n", "t", "a", "t", "i", "o", "n">>,
        <<"s", "y", "s", "t", "e", "m">>,
        <<"d", "e", "s", "i", "g", "n">>,
        <<"a", "r", "c", "h", "i", "t", "e", "c", "t", "u", "r", "e">>,
        <<"d", "e", "v", "e", "l", "o", "p", "m", "e", "n", "t">> >>,
     << <<"s", "t", "r", "a", "t", "e", "g", "y">>,
        <<"p", "l", "a", "n", "n", "i", "n", "g">>,
        <<"m", "a", "n", "a", "g", "e", "m", "e", "n", "t">>,
        <<"o", "b", "j", "e", "c", "t", "i", "v", "e", "s">>,
        <<"g", "o", "a", "l", "s">>,
        <<"p", "e", "r", "f", "o", "r", "m", "a", "n", "c", "e">> >>,
     << <<"c", "o", "d", "e">>,
        <<"p", "r", "o", "g", "r", "a", "m", "m", "i", "n", "g">>,
        <<"s", "o", "f", "t", "w", "a", "r", "e">>,
        <<"a", "p", "p", "l", "i", "c", "a", "t", "i", "o", "n">>,
        <<"d", "e", "v", "e", "l", "o", "p", "m", "e", "n", "t">>,
        <<"i", "m", "p", "l", "e", "m", "e", "n", "t", "a", "t", "i", "o", "n">> >>,
     << <<"i", "t", "i", "n", "e", "r", "a", "r", "y">>,
        <<"d", "e", "s", "t", "i", "n", "a", "t", "i", "o", "n", "s">>,
        <<"a", "c", "t", "i", "v", "i", "t", "i", "e", "s">>,
        <<"a", "t", "t", "r", "a", "c", "t", "i", "o", "n", "s">>,
        <<"r", "e", "s", "t", "a", "u", "r", "a", "n", "t", "s">>,
        <<"a", "c", "c", "o", "m", "m", "o", "d", "a", "t", "i", "o", "n">>,
        <<"t", "r", "a", "n", "s", "p", "o", "r", "t">>,
        <<"s", "c", "h", "e", "d", "u", "l", "e">>,
        <<"b", "o", "o", "k", "i", "n", "g">>,
        <<"e", "x", "p", "e", "r", "i", "e", "n", "c", "e", "s">> >>,
     << <<"s", "i", "g", "h", "t", "s", "e", "e", "i", "n", "g">>,
        <<"a", "t", "t", "r", "a", "c", "t", "i", "o", "n", "s">>,
        <<"c", "u", "l", "t", "u", "r", "e">>,
        <<"l", "o", "c", "a", "l", " ", "e", "x", "p", "e", "r", "i", "e", "n", "c", "e", "s">>,
        <<"e", "n", "t", "e", "r", "t", "a", "i", "n", "m", "e", "n", "t">>,
        <<"l", "e", "i", "s", "u", "r", "e">>,
        <<"e", "x", "p", "l", "o", "r", "a", "t", "i", "o", "n">> >>,
     << <<"j", "o", "u", "r", "n", "e", "y">>,
        <<"a", "d", "v", "e", "n", "t", "u", "r", "e">>,
        <<"e", "x", "p", "l", "o", "r", "a", "t", "i", "o", "n">>,
        <<"c", "u", "l", "t", "u", "r", "e">>,
        <<"l", "o", "c", "a", "l">>,
        <<"a", "u", "t", "h", "e", "n", "t", "i", "c">>,
        <<"e", "x", "p", "e", "r", "i", "e", "n", "c", "e">> >> >>

\* domain_keywords of MLRelevanceRanker._get_domain_keywords (keys, in order)
MlDomainNames ==
  << <<"b", "i", "o", "l", "o", "g", "y">>,
     <<"c", "h", "e", "m", "i", "s", "t", "r", "y">>,
     <<"p", "h", "y", "s", "i", "c", "s">>,
     <<"c", "o", "m", "p", "u", "t", "e", "r", " ", "s", "c", "i", "e", "n", "c", "e">>,
     <<"m", "a", "t", "h", "e", "m", "a", "t", "i", "c", "s">>,
     <<"m", "e", "d", "i", "c", "i", "n", "e">>,
     <<"f", "i", "n", "a", "n", "c", "e">>,
     <<"b", "u", "s", "i", "n", "e", "s", "s">>,
     <<"t", "e", "c", "h", "n", "o", "l", "o", "g", "y">>,
     <<"t", "r", "a", "v", "e", "l">> >>

\* domain_keywords of MLRelevanceRanker._get_domain_keywords (values, in order)
MlDomainKeywords ==
  <<
     << <<"b", "i", "o", "l", "o", "g", "i", "c", "a", "l">>,
        <<"o", "r", "g", "a", "n", "i", "s", "m">>,
        <<"c", "e", "l", "l">>,
        <<"g", "e", "n", "e", "t", "i", "c">>,
        <<"p", "r", "o", "t", "e", "i", "n">>,
        <<"s", "p", "e", "c", "i", "e", "s">>,
        <<"e", "v", "o", "l", "u", "t", "i", "o", "n">> >>,
     << <<"c", "h", "e", "m", "i", "c", "a", "l">>,
        <<"m", "o", "l", "e", "c", "u", "l", "e">>,
        <<"r", "e", "a", "c", "t", "i", "o", "n">>,
        <<"c", "o", "m", "p", "o", "u", "n", "d">>,
        <<"e", "l", "e", "m", "e", "n", "t">>,
        <<"b", "o", "n", "d">>,
        <<"s", "y", "n", "t", "h", "e", "s", "i", "s">> >>,
     << <<"p", "h", "y", "s", "i", "c", "a", "l">>,
        <<"e", "n", "e", "r", "g", "y">>,
        <<"f", "o", "r", "c", "e">>,
        <<"p", "a", "r", "t", "i", "c", "l", "e">>,
        <<"w", "a", "v", "e">>,
        <<"q", "u", "a", "n", "t", "u", "m">>,
        <<"m", "e", "c", "h", "a", "n", "i", "c", "s">> >>,
     << <<"a", "l", "g", "o", "r", "i", "t", "h", "m">>,
        <<"d", "a", "t", "a", " ", "s", "t", "r", "u", "c", "t", "u", "r", "e">>,
        <<"p", "r", "o", "g", "r", "a", "m", "m", "i", "n", "g">>,
        <<"s", "o", "f", "t", "w", "a", "r", "e">>,
        <<"h", "a", "r", "d", "w", "a", "r", "e">>,
        <<"c", "o", "m", "p", "u", "t", "i", "n", "g">> >>,
     << <<"m", "a", "t", "h", "e", "m", "a", "t", "i", "c", "a", "l">>,
        <<"e", "q", "u", "a", "t", "i", "o", "n">>,
        <<"t", "h", "e", "o", "r", "e", "m">>,
        <<"p", "r", "o", "o", "f">>,
        <<"f", "u", "n", "c", "t", "i", "o", "n">>,
        <<"v", "a", "r", "i", "a", "b", "l", "e">>,
        <<"f", "o", "r", "m", "u", "l", "a">> >>,
     << <<"m", "e", "d", "i", "c", "a", "l">>,
        <<"p", "a", "t", "i", "e", "n", "t">>,
        <<"t", "r", "e", "a", "t", "m", "e", "n", "t">>,
        <<"d", "i", "a", "g", "n", "o", "s", "i", "s">>,
        <<"t", "h", "e", "r", "a", "p", "y">>,
        <<"c", "l", "i", "n", "i", "c", "a", "l">>,
        <<"h", "e", "a", "l", "t", "h">> >>,
     << <<"f", "i", "n", "a", "n", "c", "i", "a", "l">>,
        <<"i", "n", "v", "e", "s", "t", "m", "e", "n", "t">>,
        <<"m", "a", "r", "k", "e", "t">>,
        <<"r", "e", "v", "e", "n", "u", "e">>,
        <<"p", "r", "o", "f", "i", "t">>,
        <<"r", "i", "s", "k">>,
        <<"p", "o", "r", "t", "f", "o", "l", "i", "o">> >>,
     << <<"b", "u", "s", "i", "n", "e", "s", "s">>,
        <<"s", "t", "r", "a", "t", "e", "g", "y">>,
        <<"m", "a", "r", "k", "e", "t">>,
        <<"c", "u", "s", "t", "o", "m", "e", "r">>,
        <<"r", "e", "v", "e", "n", "u", "e">>,
        <<"c", "o", "m", "p", "e", "t", "i", "t", "i", "o", "n">>,
        <<"g", "r", "o", "w", "t", "h">> >>,
     << <<"t", "e", "c", "h", "n", "o", "l", "o", "g", "y">>,
        <<"i", "n", "n", "o", "v", "a", "t", "i", "o", "n">>,
        <<"d", "i", "g", "i", "t", "a", "l">>,
        <<"a", "i">>,
        <<"m", "a", "c", "h", "i", "n", "e", " ", "l", "e", "a", "r", "n", "i", "n", "g">>,
        <<"a", "u", "t", "o", "m", "a", "t", "i", "o", "n">> >>,
     << <<"c", "i", "t", "i", "e", "s">>,
        <<"d", "e", "s", "t", "i", "n", "a", "t", "i", "o", "n", "s">>,
        <<"a", "c", "t", "i", "v", "i", "t", "i", "e", "s">>,
        <<"c", "u", "i", "s", "i", "n", "e">>,
        <<"r", "e", "s", "t", "a", "u", "r", "a", "n", "t", "s">>,
        <<"h", "o", "t", "e", "l", "s">>,
        <<"a", "t", "t", "r", "a", "c", "t", "i", "o", "n", "s">>,
        <<"c", "u", "l", "t", "u", "r", "e">>,
        <<"n", "i", "g", "h", "t", "l", "i", "f", "e">>,
        <<"e", "n", "t", "e", "r", "t", "a", "i", "n", "m", "e", "n", "t">>,
        <<"c", "o", "a", "s", "t", "a", "l">>,
        <<"a", "d", "v", "e", "n", "t", "u", "r", "e", "s">>,
        <<"e", "x", "p", "e", "r", "i", "e", "n", "c", "e", "s">>,
        <<"t", "o", "u", "r", "s">>,
        <<"t", "r", "i", "p", "s">> >> >>

(***************************************************************************)
(* RelevanceRanker: the relevance score of a section.  Scores are integers *)
(* in units of 1/ScoreScale.                                               *)
(***************************************************************************)
ScoreScale == 100000

\* Config.SEMANTIC_WEIGHT, KEYWORD_WEIGHT, STRUCTURAL_WEIGHT, QUALITY_WEIGHT,
\* in hundredths
SEMANTIC_WEIGHT == 40

KEYWORD_WEIGHT == 25

STRUCTURAL_WEIGHT == 20

QUALITY_WEIGHT == 15

\* p percent of the unit
Percent(p) == p * (ScoreScale \div 100)

\* dict.get(key, default)
Get(dict, key, default) == IF key \in DOMAIN dict THEN dict[key] ELSE default

\* table.get(key, [])
Lookup(names, table, key) ==
  IF \E i \in 1..Len(names) : names[i] = key
  THEN table[CHOOSE i \in 1..Len(names) : names[i] = key]
  ELSE <<>>

\* a / b; a division by zero is told by the Divisors of the computation
Quot(a, b) == IF b = 0 THEN 0 ELSE a \div b

\* if keywords: the guard of a division by len(keywords)
nonempty(list) == Len(list) > 0

\* f"{title} {content}"
FullText(title, content) == title \o <<" ">> \o content

\* sum(1 for keyword in keywords if keyword.lower() in text)
ListMatches(keywords, text) ==
  Cardinality({i \in 1..Len(keywords) : contains(text, lower(keywords[i]))})

\* min(matches / max(len(keywords), 1) * weight, weight)
SemanticPart(keywords, text, weight) ==
  Min(Quot(ListMatches(keywords, text) * weight, Max(Len(keywords), 1)), weight)

\* RelevanceRanker._calculate_semantic_score
calculate_semantic_score(content, title, persona_profile) ==
  LET full_text == lower(FullText(title, content))
      role_keywords == Lookup(RankerRoleNames, RankerRoleKeywords,
                              Get(persona_profile, "role", <<>>))
      domain_keywords == Lookup(RankerDomainNames, RankerDomainKeywords,
                                Get(persona_profile, "domain", <<>>))
      job_keywords == Lookup(JobTypeNames, JobTypeKeywords,
                             Get(persona_profile, "job_type", <<>>))
  IN SemanticPart(role_keywords, full_text, Percent(40))
       + SemanticPart(domain_keywords, full_text, Percent(30))
       + SemanticPart(job_keywords, full_text, Percent(30))

\* if keywords: score += min(matches / len(keywords) * weight, weight)
KeywordPart(matches, keywords, weight) ==
  IF nonempty(keywords) THEN Min(Quot(matches * weight, Len(keywords)), weight) ELSE 0

\* the criteria of which a word is in the text
CriteriaMatches(success_criteria, text) ==
  Cardinality({i \in 1..Len(success_criteria) :
                 LET words == split(success_criteria[i])
                 IN \E k \in 1..Len(words) : contains(text, lower(words[k]))})

\* RelevanceRanker._calculate_keyword_score
calculate_keyword_score(content, title, persona_profile) ==
  LET full_text == lower(FullText(title, content))
      persona_keywords == Get(persona_profile, "keywords", <<>>)
      job_keywords == Get(persona_profile, "job_keywords", <<>>)
      success_criteria == Get(persona_profile, "success_criteria", <<>>)
  IN KeywordPart(ListMatches(persona_keywords, full_text), persona_keywords, Percent(50))
       + KeywordPart(ListMatches(job_keywords, full_text), job_keywords, Percent(50))
       + KeywordPart(CriteriaMatches(success_criteria, full_text), success_criteria,
                     Percent(30))

\* the divisors of _calculate_keyword_score
KeywordDivisors(persona_profile) ==
  {Len(Get(persona_profile, key, <<>>)) :
     key \in {k \in {"keywords", "job_keywords", "success_criteria"} :
                nonempty(Get(persona_profile, k, <<>>))}}

\* RelevanceRanker._calculate_structural_score
calculate_structural_score(section) ==
  LET level == Get(section, "level", 3)
      page == Get(section, "page", 1)
      word_count == Get(section, "word_count", 0)
      level_score == IF level = 1 THEN Percent(40)
                     ELSE IF level = 2 THEN Percent(30)
                     ELSE IF level = 3 THEN Percent(20)
                     ELSE 0
      page_score == Max(0, ScoreScale - Quot((page - 1) * ScoreScale, 10))
      length_score == IF 50 <= word_count /\ word_count <= 500 THEN Percent(30)
                      ELSE IF 500 < word_count /\ word_count <= 1000 THEN Percent(20)
                      ELSE IF word_count > 1000 THEN Percent(10)
                      ELSE 0
  IN level_score + Quot(page_score * 30, 100) + length_score

SentenceEnds == {".", "!", "?"}

\* len(re.split(r'[.!?]+', text)): one piece more than there are maximal
\* runs of separators
SentenceCount(text) ==
  Cardinality({i \in 1..Len(text) :
                 text[i] \in SentenceEnds /\ (i = 1 \/ text[i - 1] \notin SentenceEnds)}) + 1

\* TextProcessor.get_text_complexity_score; avg_sentence_length * 0.4 and
\* complex_word_ratio * 100 * 0.6 are each computed with one division
get_text_complexity_score(text) ==
  LET words == findall_words(text)
      complex_words == {i \in 1..Len(words) : Len(words[i]) > 6}
      sentence_part == Quot(Len(words) * 4 * ScoreScale, SentenceCount(text) * 10)
      complex_part == Quot(Cardinality(complex_words) * 60 * ScoreScale, Len(words))
      complexity == sentence_part + complex_part
  IN IF Len(text) = 0 \/ Len(words) = 0 THEN 0
     ELSE Min(Quot(complexity, 20), ScoreScale)

\* the divisors of get_text_complexity_score
ComplexityDivisors(text) ==
  LET words == findall_words(text)
  IN IF Len(text) = 0 \/ Len(words) = 0 THEN {}
     ELSE {SentenceCount(text), Len(words)}

QuestionWords ==
  { <<"w", "h", "a", "t">>, <<"h", "o", "w">>, <<"w", "h", "y">>, <<"w", "h", "e", "n">>, <<"w", "h", "e", "r", "e">>, <<"w", "h", "o">>, <<"w", "h", "i", "c", "h">> }

\* TextProcessor.is_question
is_question(text) ==
  LET words == split(lower(strip(text)))
  IN endswith(strip(text), "?") \/ (Len(words) > 0 /\ words[1] \in QuestionWords)

ReadabilityIndicators ==
  { <<"f", "i", "g", "u", "r", "e">>, <<"t", "a", "b", "l", "e">>, <<"e", "x", "a", "m", "p", "l", "e">>, <<"c", "a", "s", "e", " ", "s", "t", "u", "d", "y">>, <<"r", "e", "s", "u", "l", "t">>, <<"f", "i", "n", "d", "i", "n", "g">> }

\* the words of the content that hold a digit
NumberWords(content) ==
  LET words == split(content)
  IN {i \in 1..Len(words) : \E k \in 1..Len(words[i]) : words[i][k] \in Digits}

\* RelevanceRanker._calculate_quality_score
calculate_quality_score(content) ==
  LET words == split(content)
      word_count == Len(words)
      unique_words == Cardinality({lower(words[i]) : i \in 1..word_count})
      numbers == Cardinality(NumberWords(content))
      diversity == IF word_count > 0
                   THEN Min(Quot(unique_words * 2 * ScoreScale, word_count), Percent(30))
                   ELSE 0
      quantitative == IF numbers > 0
                      THEN Min(Quot(numbers * 10 * ScoreScale, word_count), Percent(20))
                      ELSE 0
      complexity == Quot(get_text_complexity_score(content) * 20, 100)
      readable == IF \E indicator \in ReadabilityIndicators :
                       contains(lower(content), indicator)
                  THEN Percent(20) ELSE 0
      question == IF is_question(content) THEN Percent(10) ELSE 0
  IN IF Len(content) = 0 THEN 0
     ELSE Min(diversity + quantitative + complexity + readable + question, ScoreScale)

\* the divisors of _calculate_quality_score
QualityDivisors(content) ==
  LET word_count == Len(split(content))
  IN IF Len(content) = 0 THEN {}
     ELSE (IF word_count > 0 THEN {word_count} ELSE {})
            \cup (IF Cardinality(NumberWords(content)) > 0 THEN {word_count} ELSE {})
            \cup ComplexityDivisors(content)

\* the weighted combination before the cap
WeightedTotal(section, persona_profile) ==
  LET content == Get(section, "content", <<>>)
      title == Get(section, "title", <<>>)
  IN Quot(calculate_semantic_score(content, title, persona_profile) * SEMANTIC_WEIGHT
            + calculate_keyword_score(content, title, persona_profile) * KEYWORD_WEIGHT
            + calculate_structural_score(section) * STRUCTURAL_WEIGHT
            + calculate_quality_score(content) * QUALITY_WEIGHT, 100)

\* the total without the cap
uncapped(total) == total

\* min(total_score, 1.0)
capped(total) == Min(total, ScoreScale)

\* RelevanceRanker._calculate_relevance_score: the score, and whether a
\* division by zero was raised on the way
calculate_relevance_score(section, persona_profile) ==
  LET content == Get(section, "content", <<>>)
  IN IF Len(content) = 0 THEN [raised |-> FALSE, score |-> 0]
     ELSE [raised |-> 0 \in KeywordDivisors(persona_profile) \cup QualityDivisors(content),
           score |-> capped(WeightedTotal(section, persona_profile))]

(***************************************************************************)
(* MLRelevanceRanker: the relevance score of a section.                    *)
(***************************************************************************)
\* context_parts of _create_persona_context
ContextParts(persona_profile) ==
  (IF Len(Get(persona_profile, "raw_persona", <<>>)) > 0
   THEN <<persona_profile["raw_persona"]>> ELSE <<>>)
    \o (IF Len(Get(persona_profile, "raw_job", <<>>)) > 0
        THEN <<persona_profile["raw_job"]>> ELSE <<>>)
    \o Get(persona_profile, "keywords", <<>>)
    \o Get(persona_profile, "job_keywords", <<>>)

\* MLRelevanceRanker._create_persona_context
create_persona_context(persona_profile) == join(ContextParts(persona_profile))

\* What a similarity model does when asked: it is not loaded, it raises, or
\* it returns a value (in hundredths), which need not lie between 0 and 1.
SimilarityValues == {-50, 50, 101}

ModelAnswers ==
  {[kind |-> "absent", value |-> 0], [kind |-> "raise", value |-> 0]}
    \cup {[kind |-> "value", value |-> v] : v \in SimilarityValues}

\* set(re.findall(r'\b\w+\b', text.lower()))
WordSet(text) ==
  LET words == findall_words(lower(text))
  IN {words[i] : i \in 1..Len(words)}

\* the word overlap fallback of calculate_text_similarity
word_overlap(text1, text2) ==
  LET words1 == WordSet(text1)
      words2 == WordSet(text2)
  IN IF words1 = {} \/ words2 = {} THEN 0
     ELSE IF words1 \cup words2 # {}
     THEN Quot(Cardinality(words1 \cap words2) * ScoreScale,
               Cardinality(words1 \cup words2))
     ELSE 0

\* TextProcessor.calculate_text_similarity with the answers of the sentence
\* model and of the spaCy model
calculate_text_similarity(text1, text2, sentence_model, nlp) ==
  IF Len(text1) = 0 \/ Len(text2) = 0 THEN 0
  ELSE IF sentence_model.kind = "value" THEN Percent(sentence_model.value)
  ELSE IF nlp.kind = "value" THEN Percent(nlp.value)
  ELSE word_overlap(text1, text2)

\* MLRelevanceRanker._calculate_semantic_similarity
calculate_semantic_similarity(text, context, sentence_model, nlp) ==
  IF Len(text) = 0 \/ Len(context) = 0 THEN 0
  ELSE Max(0, Min(ScoreScale, calculate_text_similarity(text, context, sentence_model, nlp)))

\* MLRelevanceRanker._get_domain_keywords: the exact key, else the first key
\* that holds the domain or is held by it
ml_domain_keywords(domain) ==
  LET partial == {i \in 1..Len(MlDomainNames) :
                    contains(domain, MlDomainNames[i]) \/ contains(MlDomainNames[i], domain)}
  IN IF \E i \in 1..Len(MlDomainNames) : MlDomainNames[i] = domain
     THEN Lookup(MlDomainNames, MlDomainKeywords, domain)
     ELSE IF partial # {} THEN MlDomainKeywords[First(partial)]
     ELSE <<>>

CollegeFriends == <<"c", "o", "l", "l", "e", "g", "e", " ", "f", "r", "i", "e", "n", "d", "s">>

Group == <<"g", "r", "o", "u", "p">>

ActivityKeywords ==
  << <<"a", "c", "t", "i", "v", "i", "t", "i", "e", "s">>, <<"n", "i", "g", "h", "t", "l", "i", "f", "e">>, <<"e", "n", "t", "e", "r", "t", "a", "i", "n", "m", "e", "n", "t">>, <<"c", "o", "a", "s", "t", "a", "l">>,
     <<"a", "d", "v", "e", "n", "t", "u", "r", "e", "s">>, <<"b", "e", "a", "c", "h">>, <<"w", "a", "t", "e", "r", " ", "s", "p", "o", "r", "t", "s">>, <<"c", "l", "u", "b", "s">>, <<"b", "a", "r", "s">>,
     <<"r", "e", "s", "t", "a", "u", "r", "a", "n", "t", "s">>, <<"f", "u", "n">>, <<"g", "r", "o", "u", "p">> >>

GenericKeywords ==
  << <<"p", "a", "c", "k", "i", "n", "g">>, <<"t", "o", "i", "l", "e", "t", "r", "i", "e", "s">>, <<"e", "s", "s", "e", "n", "t", "i", "a", "l", "s">>, <<"t", "i", "p", "s">>, <<"t", "r", "i", "c", "k", "s">>,
     <<"g", "e", "n", "e", "r", "a", "l">> >>

\* if keywords: score += matches / len(keywords) * weight
RulePart(keywords, text, weight) ==
  IF nonempty(keywords)
  THEN Quot(ListMatches(keywords, text) * weight, Len(keywords))
  ELSE 0

\* the lists _calculate_rule_based_score divides by the length of
RuleLists(persona_profile) ==
  << Get(persona_profile, "keywords", <<>>) \o Get(persona_profile, "job_keywords", <<>>),
     Lookup(MlRoleNames, MlRoleKeywords, lower(Get(persona_profile, "role", <<>>))),
     ml_domain_keywords(lower(Get(persona_profile, "domain", <<>>))) >>

\* MLRelevanceRanker._calculate_rule_based_score
calculate_rule_based_score(section, persona_profile) ==
  LET full_text == FullText(lower(Get(section, "title", <<>>)),
                            lower(Get(section, "content", <<>>)))
      lists == RuleLists(persona_profile)
      score == RulePart(lists[1], full_text, Percent(40))
                 + RulePart(lists[2], full_text, Percent(30))
                 + RulePart(lists[3], full_text, Percent(30))
      job_text == lower(Get(persona_profile, "raw_job", <<>>))
      boosted == IF ListMatches(ActivityKeywords, full_text) > 0
                 THEN score + Percent(20) ELSE score
      adjusted == IF ListMatches(GenericKeywords, full_text) > 2
                  THEN Quot(boosted * 70, 100) ELSE boosted
  IN IF contains(job_text, CollegeFriends) \/ contains(job_text, Group)
     THEN Min(adjusted, ScoreScale)
     ELSE Min(score, ScoreScale)

\* the divisors of _calculate_rule_based_score
RuleDivisors(persona_profile) ==
  {Len(RuleLists(persona_profile)[i]) :
     i \in {k \in 1..3 : nonempty(RuleLists(persona_profile)[k])}}

\* 70% ML, 30% rules, before the cap
MlWeightedTotal(section, persona_profile, sentence_model, nlp) ==
  LET full_text == strip(FullText(Get(section, "title", <<>>),
                                  Get(section, "content", <<>>)))
      semantic_score ==
        calculate_semantic_similarity(full_text, create_persona_context(persona_profile),
                                      sentence_model, nlp)
  IN Quot(70 * semantic_score + 30 * calculate_rule_based_score(section, persona_profile),
          100)

\* MLRelevanceRanker._calculate_ml_relevance_score: the score, and whether
\* a division by zero was raised on the way
calculate_ml_relevance_score(section, persona_profile, sentence_model, nlp) ==
  IF Len(Get(section, "content", <<>>)) = 0 /\ Len(Get(section, "title", <<>>)) = 0
  THEN [raised |-> FALSE, score |-> 0]
  ELSE [raised |-> 0 \in RuleDivisors(persona_profile),
        score |-> capped(MlWeightedTotal(section, persona_profile, sentence_model, nlp))]

(***************************************************************************)
(* Calls of the two relevance scorers.                                     *)
(***************************************************************************)
\* a content that holds every keyword of a researcher in biology who reviews
RichContent ==
  <<"T", "a", "b", "l", "e", " ", "1", ":", " ", "r", "e", "s", "e", "a",
    "r", "c", "h", " ", "s", "t", "u", "d", "y", " ", "a", "n", "a", "l",
    "y", "s", "i", "s", " ", "m", "e", "t", "h", "o", "d", "o", "l", "o",
    "g", "y", " ", "f", "i", "n", "d", "i", "n", "g", "s", " ", "l", "i",
    "t", "e", "r", "a", "t", "u", "r", "e", " ", "h", "y", "p", "o", "t",
    "h", "e", "s", "i", "s", " ", "e", "x", "p", "e", "r", "i", "m", "e",
    "n", "t", " ", "o", "n", " ", "c", "e", "l", "l", " ", "o", "r", "g",
    "a", "n", "i", "s", "m", " ", "g", "e", "n", "e", " ", "p", "r", "o",
    "t", "e", "i", "n", " ", "e", "v", "o", "l", "u", "t", "i", "o", "n",
    " ", "e", "c", "o", "s", "y", "s", "t", "e", "m", " ", "s", "p", "e",
    "c", "i", "e", "s", " ", "m", "o", "l", "e", "c", "u", "l", "a", "r",
    " ", "-", " ", "w", "e", " ", "r", "e", "v", "i", "e", "w", " ", "e",
    "v", "a", "l", "u", "a", "t", "e", " ", "a", "s", "s", "e", "s", "s",
    " ", "c", "r", "i", "t", "i", "q", "u", "e", " ", "e", "x", "a", "m",
    "i", "n", "a", "t", "i", "o", "n", " ", "o", "v", "e", "r", "v", "i",
    "e", "w", " ", "s", "u", "m", "m", "a", "r", "y", " ", "f", "o", "r",
    " ", "a", " ", "P", "h", "D">>

SectionContents ==
  { <<>>,
    <<" ">>,
    <<"G", "e", "n", "e", " ", "s", "t", "u", "d", "y", " ", "2", "0", "2", "4", "?">>,
    <<"W", "e", " ", "r", "e", "v", "i", "e", "w", " ", "r", "e", "s", "u",
      "l", "t", "s", " ", "o", "f", " ", "t", "h", "e", " ", "c", "e", "l",
      "l", " ", "e", "x", "p", "e", "r", "i", "m", "e", "n", "t", ".", " ",
      "S", "e", "e", " ", "t", "a", "b", "l", "e", " ", "2">>,
    <<"B", "e", "a", "c", "h", " ", "c", "l", "u", "b", "s", " ", "a", "n",
      "d", " ", "b", "a", "r", "s", ":", " ", "p", "a", "c", "k", "i", "n",
      "g", " ", "t", "i", "p", "s", " ", "a", "n", "d", " ", "g", "e", "n",
      "e", "r", "a", "l", " ", "e", "s", "s", "e", "n", "t", "i", "a", "l",
      "s">>,
    RichContent }

SectionTitles == { <<>>, <<"M", "e", "t", "h", "o", "d", "s">> }

SectionLevels == {1, 2, 3, 4}

SectionPages == {1, 5, 11, 12}

SectionWordCounts == {0, 50, 501, 1001}

\* the sections SectionExtractor yields, and sections without the optional keys
ScoredSections ==
  {[content |-> c, title |-> t, level |-> l, page |-> p, word_count |-> n] :
     c \in SectionContents, t \in SectionTitles, l \in SectionLevels,
     p \in SectionPages, n \in SectionWordCounts}
    \cup {[content |-> c, title |-> t] : c \in SectionContents, t \in SectionTitles}

MlScoredSections ==
  {[content |-> c, title |-> t] : c \in SectionContents, t \in SectionTitles}
    \cup {[title |-> t] : t \in SectionTitles}

\* a profile without the keys the scorers read
BareProfile == [raw_persona |-> <<>>]

ResearchProfile ==
  [raw_persona |-> <<"P", "h", "D", " ", "R", "e", "s", "e", "a", "r", "c", "h", "e", "r", " ", "i", "n", " ", "B", "i", "o", "l", "o", "g", "y">>,
   raw_job |-> <<"R", "e", "v", "i", "e", "w", " ", "g", "e", "n", "e", " ", "s", "t", "u", "d", "i", "e", "s">>,
   role |-> <<"r", "e", "s", "e", "a", "r", "c", "h", "e", "r">>,
   domain |-> <<"b", "i", "o", "l", "o", "g", "y">>,
   job_type |-> <<"r", "e", "v", "i", "e", "w">>,
   keywords |-> << <<"g", "e", "n", "e">>, <<"p", "h", "d">> >>,
   job_keywords |-> << <<"r", "e", "v", "i", "e", "w">> >>,
   success_criteria |-> << <<"f", "i", "n", "d", " ", "g", "e", "n", "e", " ", "s", "t", "u", "d", "i", "e", "s">> >>]

\* an unknown role, domain and job type and empty keyword lists
UnknownProfile ==
  [raw_persona |-> <<"W", "i", "z", "a", "r", "d">>,
   raw_job |-> <<>>,
   role |-> <<"w", "i", "z", "a", "r", "d">>,
   domain |-> <<"a", "l", "c", "h", "e", "m", "y">>,
   job_type |-> <<>>,
   keywords |-> <<>>,
   job_keywords |-> <<>>,
   success_criteria |-> <<>>]

TravelProfile ==
  [raw_persona |-> <<"T", "r", "a", "v", "e", "l", " ", "P", "l", "a", "n", "n", "e", "r">>,
   raw_job |-> <<"P", "l", "a", "n", " ", "a", " ", "t", "r", "i", "p", " ",
                "f", "o", "r", " ", "a", " ", "g", "r", "o", "u", "p", " ",
                "o", "f", " ", "1", "0", " ", "c", "o", "l", "l", "e", "g",
                "e", " ", "f", "r", "i", "e", "n", "d", "s">>,
   role |-> <<"t", "r", "a", "v", "e", "l", " ", "p", "l", "a", "n", "n", "e", "r">>,
   domain |-> <<"t", "r", "a", "v", "e", "l">>,
   job_type |-> <<"p", "r", "e", "p", "a", "r", "e">>,
   keywords |-> << <<"t", "r", "i", "p">> >>,
   job_keywords |-> << <<"p", "l", "a", "n">>, <<"g", "r", "o", "u", "p">> >>,
   success_criteria |-> <<>>]

PersonaProfiles == {BareProfile, ResearchProfile, UnknownProfile, TravelProfile}

ModelAbsent == [kind |-> "absent", value |-> 0]

ScoreIdle ==
  /\ sRanker = "basic"
  /\ sSection = [title |-> <<>>]
  /\ sProfile = BareProfile
  /\ sSentenceModel = ModelAbsent
  /\ sNlp = ModelAbsent
  /\ sScore = 0
  /\ sRaised = FALSE
  /\ sCalled = FALSE

\* RelevanceRanker._calculate_relevance_score(section, persona_profile)
CallCalculateRelevanceScore ==
  /\ sCalled = FALSE
  /\ \E section \in ScoredSections, persona_profile \in PersonaProfiles :
       LET r == calculate_relevance_score(section, persona_profile)
       IN /\ sRanker' = "basic"
          /\ sSection' = section
          /\ sProfile' = persona_profile
          /\ sSentenceModel' = ModelAbsent
          /\ sNlp' = ModelAbsent
          /\ sScore' = r.score
          /\ sRaised' = r.raised
          /\ sCalled' = TRUE
  /\ UNCHANGED exceptScore

\* MLRelevanceRanker._calculate_ml_relevance_score(section, persona_profile)
CallCalculateMlRelevanceScore ==
  /\ sCalled = FALSE
  /\ \E section \in MlScoredSections, persona_profile \in PersonaProfiles,
        sentence_model \in ModelAnswers, nlp \in ModelAnswers :
       LET r == calculate_ml_relevance_score(section, persona_profile, sentence_model, nlp)
       IN /\ sRanker' = "ml"
          /\ sSection' = section
          /\ sProfile' = persona_profile
          /\ sSentenceModel' = sentence_model
          /\ sNlp' = nlp
          /\ sScore' = r.score
          /\ sRaised' = r.raised
          /\ sCalled' = TRUE
  /\ UNCHANGED exceptScore

\* the ranker has stored the score with the section
ReturnScore ==
  /\ sCalled = TRUE
  /\ sRanker' = "basic"
  /\ sSection' = [title |-> <<>>]
  /\ sProfile' = BareProfile
  /\ sSentenceModel' = ModelAbsent
  /\ sNlp' = ModelAbsent
  /\ sScore' = 0
  /\ sRaised' = FALSE
  /\ sCalled' = FALSE
  /\ UNCHANGED exceptScore

(***************************************************************************)
(* TextProcessor: its construction, and the calls of is_heading_ml and of  *)
(* calculate_text_similarity on the processor constructed.                 *)
(***************************************************************************)
\* SPACY_AVAILABLE, TRANSFORMERS_AVAILABLE, SENTENCE_TRANSFORMERS_AVAILABLE:
\* the imports that succeeded
Imports ==
  [spacy : BOOLEAN, transformers : BOOLEAN, sentence_transformers : BOOLEAN]

NoImports == [spacy |-> FALSE, transformers |-> FALSE, sentence_transformers |-> FALSE]

\* what the loading of a model does: spacy.load finds en_core_web_sm, or
\* en_core_web_md after an OSError, or raises OSError twice; pipeline and
\* SentenceTransformer return a model or raise
Loads ==
  [nlp : {"en_core_web_sm", "en_core_web_md", "OSError"},
   classifier : {"loaded", "raise"},
   sentence_model : {"loaded", "raise"}]

NoLoads == [nlp |-> "OSError", classifier |-> "raise", sentence_model |-> "raise"]

\* TextProcessor.__init__: which of nlp, classifier and sentence_model are
\* not None when it ends.  The handler of the sentence transformer sets
\* self.nlp = None.
text_processor_init(imports, loads) ==
  LET nlp == imports.spacy /\ loads.nlp # "OSError"
      classifier_loaded == imports.transformers /\ loads.classifier = "loaded"
      sentence_model == imports.sentence_transformers /\ loads.sentence_model = "loaded"
      sentence_model_failed ==
        imports.sentence_transformers /\ loads.sentence_model = "raise"
  IN [nlp |-> IF sentence_model_failed THEN FALSE ELSE nlp,
      classifier |-> classifier_loaded,
      sentence_model |-> sentence_model]

\* the texts of the similarity calls
SimilarityTexts ==
  { <<>>,
    <<"g", "e", "n", "e", " ", "s", "t", "u", "d", "y">>,
    <<"G", "e", "n", "e", " ", "r", "e", "v", "i", "e", "w">>,
    <<"c", "e", "l", "l", "s">> }

\* what a model does in a call: a model that is not loaded is not asked, a
\* loaded one raises or returns a value
AnswersOf(loaded) ==
  IF loaded THEN {a \in ModelAnswers : a.kind # "absent"} ELSE {ModelAbsent}

NoCall ==
  [called |-> FALSE, text1 |-> <<>>, text2 |-> <<>>, sentence_model |-> ModelAbsent,
   nlp |-> ModelAbsent, result |-> 0]

ProcessorIdle ==
  /\ tImports = NoImports
  /\ tLoads = NoLoads
  /\ tPc = "idle"
  /\ tNlp = FALSE
  /\ tSentenceModel = FALSE
  /\ tCall = NoCall

\* TextProcessor.__init__()
ConstructTextProcessor ==
  /\ tPc = "new"
  /\ \E imports \in Imports, loads \in Loads :
       LET loaded == text_processor_init(imports, loads)
       IN /\ tImports' = imports
          /\ tLoads' = loads
          /\ tNlp' = loaded.nlp
          /\ classifier' = loaded.classifier
          /\ tSentenceModel' = loaded.sentence_model
  /\ tPc' = "constructed"
  /\ UNCHANGED tCall
  /\ UNCHANGED exceptProcessor

\* the caller holds the processor
UseTextProcessor ==
  /\ tPc = "constructed"
  /\ tPc' = "ready"
  /\ tImports' = NoImports
  /\ tLoads' = NoLoads
  /\ UNCHANGED <<tNlp, tSentenceModel, tCall, classifier>>
  /\ UNCHANGED exceptProcessor

\* TextProcessor.is_heading_ml(text) on the processor
ProcessorIsHeadingMl ==
  /\ tPc = "ready"
  /\ tCall.called = FALSE
  /\ CallIsHeadingMl

ProcessorReturnIsHeadingMl ==
  /\ tPc = "ready"
  /\ ReturnIsHeadingMl

\* TextProcessor.calculate_text_similarity(text1, text2) on the processor
CallCalculateTextSimilarity ==
  /\ tPc = "ready"
  /\ tCall.called = FALSE
  /\ hCalled = FALSE
  /\ \E text1 \in SimilarityTexts, text2 \in SimilarityTexts :
       \E sentence_model \in AnswersOf(tSentenceModel), nlp \in AnswersOf(tNlp) :
         tCall' = [called |-> TRUE, text1 |-> text1, text2 |-> text2,
                   sentence_model |-> sentence_model, nlp |-> nlp,
                   result |-> calculate_text_similarity(text1, text2, sentence_model, nlp)]
  /\ UNCHANGED <<tImports, tLoads, tPc, tNlp, tSentenceModel, classifier>>
  /\ UNCHANGED exceptProcessor

\* the caller has taken the similarity
ReturnCalculateTextSimilarity ==
  /\ tPc = "ready"
  /\ tCall.called = TRUE
  /\ tCall' = NoCall
  /\ UNCHANGED <<tImports, tLoads, tPc, tNlp, tSentenceModel, classifier>>
  /\ UNCHANGED exceptProcessor
(***************************************************************************)
(* RelevanceRanker.rank_sections, MLRelevanceRanker.rank_sections and      *)
(* DocumentAnalyzer.analyze_documents.                                     *)
(***************************************************************************)
\* section_copy[key] = value
With(section, key, value) ==
  [k \in DOMAIN section \cup {key} |-> IF k = key THEN value ELSE section[k]]

\* a section that came earlier goes behind one that came later with the
\* same score
behind_equal(a, b) == a > b

\* reverse=True of a stable sort: a section stays in front of a later one
\* unless its score is smaller
in_front(a, b) == a >= b

\* one step of the sort: s goes behind every section that stays in front
RECURSIVE InsertByScore(_, _)
InsertByScore(sorted, s) ==
  IF Len(sorted) = 0 THEN <<s>>
  ELSE IF in_front(sorted[Len(sorted)].relevance_score, s.relevance_score)
  THEN Append(sorted, s)
  ELSE Append(InsertByScore(SubSeq(sorted, 1, Len(sorted) - 1), s), sorted[Len(sorted)])

\* scored_sections.sort(key=lambda x: x['relevance_score'], reverse=True)
RECURSIVE SortByScore(_)
SortByScore(scored_sections) ==
  IF Len(scored_sections) = 0 THEN <<>>
  ELSE InsertByScore(SortByScore(SubSeq(scored_sections, 1, Len(scored_sections) - 1)),
                     scored_sections[Len(scored_sections)])

\* RelevanceRanker.rank_sections
rank_sections(sections, persona_profile) ==
  SortByScore([i \in 1..Len(sections) |->
                 With(sections[i], "relevance_score",
                      calculate_relevance_score(sections[i], persona_profile).score)])

\* if doc_count > 3
DiversityThreshold == 3

\* 0.1 * (doc_count - 3), in hundredths
PenaltyStep == 10

\* min(diversity_penalty, 0.5), in hundredths
MaxPenalty == 50

\* document_counts[doc_name] after the scoring loop
DocumentCount(sections, doc_name) ==
  Cardinality({i \in 1..Len(sections) : Get(sections[i], "document", "") = doc_name})

\* the penalty without its cap
uncapped_penalty(diversity_penalty) == diversity_penalty

\* min(diversity_penalty, 0.5)
capped_penalty(diversity_penalty) == Min(diversity_penalty, MaxPenalty)

\* a bonus in the place of the penalty
bonus_factor(penalty) == 100 + penalty

\* 1 - penalty, in hundredths
penalty_factor(penalty) == 100 - penalty

\* The relevance_score of a section after the diversity loop.  From here on
\* the scores of MLRelevanceRanker are in units of 1/(100 * ScoreScale), so
\* that the product with the factor is exact.
Penalised(score, doc_count) ==
  IF doc_count > DiversityThreshold
  THEN score * penalty_factor(capped_penalty(PenaltyStep * (doc_count - DiversityThreshold)))
  ELSE score * 100

\* scored_sections of MLRelevanceRanker.rank_sections after the diversity loop
penalised_sections(sections, persona_profile, sentence_model, nlp) ==
  [i \in 1..Len(sections) |->
     With(sections[i], "relevance_score",
          Penalised(calculate_ml_relevance_score(sections[i], persona_profile,
                                                 sentence_model, nlp).score,
                    DocumentCount(sections, Get(sections[i], "document", ""))))]

\* section['importance_rank'] = i + 1
WithRanks(scored_sections) ==
  [i \in 1..Len(scored_sections) |-> With(scored_sections[i], "importance_rank", i)]

\* MLRelevanceRanker.rank_sections
ml_rank_sections(sections, persona_profile, sentence_model, nlp) ==
  WithRanks(SortByScore(penalised_sections(sections, persona_profile, sentence_model, nlp)))

\* what text_processor.sentence_model answers for the text of a section
SentenceAnswer(answers, section) ==
  IF Get(section, "title", <<>>) \in DOMAIN answers
  THEN answers[Get(section, "title", <<>>)]
  ELSE ModelAbsent

\* scored_sections of MLRelevanceRanker.rank_sections after the diversity
\* loop, with a sentence model that answers for each text
answered_sections(sections, persona_profile, answers) ==
  [i \in 1..Len(sections) |->
     With(sections[i], "relevance_score",
          Penalised(calculate_ml_relevance_score(sections[i], persona_profile,
                                                 SentenceAnswer(answers, sections[i]),
                                                 ModelAbsent).score,
                    DocumentCount(sections, Get(sections[i], "document", ""))))]

\* MLRelevanceRanker.rank_sections with a sentence model
ml_rank_answered(sections, persona_profile, answers) ==
  WithRanks(SortByScore(answered_sections(sections, persona_profile, answers)))

\* ranked_sections[:15]
(***************************************************************************)
(* DocumentAnalyzer: the sub-sections, the result and its failure value.   *)
(***************************************************************************)
\* ranked_sections[:15]
MaxFormatted == 15

\* DocumentAnalyzer._format_extracted_sections
format_extracted_sections(ranked_sections) ==
  [i \in 1..Min(Len(ranked_sections), MaxFormatted) |->
     [document |-> ranked_sections[i].document,
      page_number |-> ranked_sections[i].page,
      section_title |-> ranked_sections[i].title,
      importance_rank |-> i]]

\* re.split(r'\n\s*\n', text): the text from `start` on, cut at every line
\* break that is followed, after white space only, by another line break
RECURSIVE Paragraphs(_, _, _)
Paragraphs(text, start, i) ==
  IF i > Len(text) THEN <<SubSeq(text, start, Len(text))>>
  ELSE IF text[i] # "\n" THEN Paragraphs(text, start, i + 1)
  ELSE LET e == RunEnd(text, i + 1, Whitespace)
           breaks == {k \in (i + 1)..(e - 1) : text[k] = "\n"}
       IN IF breaks = {} THEN Paragraphs(text, start, i + 1)
          ELSE LET last == CHOOSE k \in breaks : \A j \in breaks : j <= k
               IN <<SubSeq(text, start, i - 1)>> \o Paragraphs(text, last + 1, last + 1)

\* a paragraph is kept if it is longer than this
MinParagraph == 50

\* TextProcessor.segment_text_by_topics
segment_text_by_topics(text, max_segments) ==
  IF text = <<>> THEN <<>>
  ELSE LET paragraphs == Paragraphs(text, 1, 1)
           stripped == [i \in 1..Len(paragraphs) |-> strip(paragraphs[i])]
           segments == SelectSeq(stripped, LAMBDA p : Len(p) > MinParagraph)
       IN SubSeq(segments, 1, Min(Len(segments), max_segments))

\* max_segments of extract_subsections
MaxSegments == 5

\* the loop of extract_subsections over the first n paragraphs
RECURSIVE Subsections(_, _, _, _)
Subsections(paragraphs, document, page, n) ==
  IF n = 0 THEN <<>>
  ELSE IF Len(strip(paragraphs[n])) > MinParagraph
  THEN Append(Subsections(paragraphs, document, page, n - 1),
              [content |-> strip(paragraphs[n]), document |-> document,
               page |-> page, subsection_index |-> n])
  ELSE Subsections(paragraphs, document, page, n - 1)

\* SectionExtractor.extract_subsections
extract_subsections(content, document, page) ==
  IF content = <<>> THEN <<>>
  ELSE LET paragraphs == segment_text_by_topics(content, MaxSegments)
       IN Subsections(paragraphs, document, page, Len(paragraphs))

\* str.split(sep) for a separator of two characters, from index i on
RECURSIVE SplitOn(_, _, _, _)
SplitOn(text, sep, start, i) ==
  IF i + 1 > Len(text) THEN <<SubSeq(text, start, Len(text))>>
  ELSE IF SubSeq(text, i, i + 1) = sep
       THEN <<SubSeq(text, start, i - 1)>> \o SplitOn(text, sep, i + 2, i + 2)
       ELSE SplitOn(text, sep, start, i + 1)

\* sep.join(parts)
RECURSIVE JoinWith(_, _)
JoinWith(parts, sep) ==
  IF Len(parts) = 0 THEN <<>>
  ELSE IF Len(parts) = 1 THEN parts[1]
  ELSE parts[1] \o sep \o JoinWith(Tail(parts), sep)

SentenceBreak == <<".", " ">>

Indicators ==
  { <<"t", "h", "e", "r", "e", "f", "o", "r", "e">>,
    <<"c", "o", "n", "c", "l", "u", "s", "i", "o", "n">>,
    <<"r", "e", "s", "u", "l", "t">>,
    <<"f", "i", "n", "d", "i", "n", "g">> }

\* a sentence longer than this gets the length bonus
LongSentence == 50

\* the parts of the sentence score, in tenths: 0.2 for each persona keyword
\* in the sentence, 0.3 for each job keyword, 0.1 for a long sentence, 0.2
\* for an indicator
SentenceParts(sentence, persona_profile) ==
  LET persona_keywords == Get(persona_profile, "keywords", <<>>)
      job_keywords == Get(persona_profile, "job_keywords", <<>>)
      sentence_lower == lower(sentence)
      hits(keywords) ==
        Cardinality({i \in 1..Len(keywords) : contains(sentence_lower, lower(keywords[i]))})
  IN [persona |-> 2 * hits(persona_keywords),
      job |-> 3 * hits(job_keywords),
      length |-> IF Len(sentence) > LongSentence THEN 1 ELSE 0,
      indicator |-> IF \E indicator \in Indicators : contains(sentence_lower, indicator)
                    THEN 2 ELSE 0]

\* DocumentAnalyzer._score_sentence_relevance, in tenths
score_sentence_relevance(sentence, persona_profile) ==
  LET parts == SentenceParts(sentence, persona_profile)
  IN Min(parts.persona + parts.job + parts.length + parts.indicator, 10)

\* relevance_score > 0.3 on the floats of the program: 0.2 + 0.1 and
\* 0.1 + 0.2 are 0.30000000000000004, above the threshold, while 0.0 + 0.3 is
\* 0.3, not above it
Threshold == 3

above_threshold(sentence, persona_profile) ==
  LET parts == SentenceParts(sentence, persona_profile)
      total == parts.persona + parts.job + parts.length + parts.indicator
  IN total > Threshold \/ (total = Threshold /\ parts.job = 0)

\* a sentence is scored if it is longer than this
MinSentence == 20

\* relevant_sentences[:3]
MaxSentences == 3

\* DocumentAnalyzer._refine_subsection_text
refine_subsection_text(content, persona_profile) ==
  IF content = <<>> THEN <<>>
  ELSE LET sentences == SplitOn(content, SentenceBreak, 1, 1)
           stripped == [i \in 1..Len(sentences) |-> strip(sentences[i])]
           relevant_sentences ==
             SelectSeq(stripped, LAMBDA sentence :
                         /\ Len(sentence) > MinSentence
                         /\ above_threshold(sentence, persona_profile))
           refined == JoinWith(SubSeq(relevant_sentences, 1,
                                      Min(Len(relevant_sentences), MaxSentences)),
                               SentenceBreak)
       IN IF Len(relevant_sentences) = 0 THEN <<>>
          ELSE IF endswith(refined, ".") THEN refined
          ELSE Append(refined, ".")

\* ranked_sections[:10]
MaxAnalyzed == 10

\* subsection_analysis[:20]
MaxSubsections == 20

\* the inner loop of _analyze_subsections over the first n sub-sections of
\* a section: a sub-section is kept if its refined text is not empty
RECURSIVE RefinedEntries(_, _, _)
RefinedEntries(subsections, persona_profile, n) ==
  IF n = 0 THEN <<>>
  ELSE LET refined_text == refine_subsection_text(subsections[n].content, persona_profile)
           front == RefinedEntries(subsections, persona_profile, n - 1)
       IN IF Len(refined_text) > 0
          THEN Append(front, [document |-> subsections[n].document,
                              page_number |-> subsections[n].page,
                              refined_text |-> refined_text])
          ELSE front

\* the entries one ranked section adds to subsection_analysis
SectionAnalysis(section, persona_profile) ==
  LET subsections == extract_subsections(section.content, section.document, section.page)
  IN RefinedEntries(subsections, persona_profile, Len(subsections))

\* the outer loop of _analyze_subsections over the first n ranked sections
RECURSIVE AnalysisOf(_, _, _)
AnalysisOf(ranked_sections, persona_profile, n) ==
  IF n = 0 THEN <<>>
  ELSE AnalysisOf(ranked_sections, persona_profile, n - 1)
         \o SectionAnalysis(ranked_sections[n], persona_profile)

\* the sub-sections of all ranked sections, not of the first ten only
analyze_all_subsections(ranked_sections, persona_profile) ==
  LET subsection_analysis == AnalysisOf(ranked_sections, persona_profile, Len(ranked_sections))
  IN SubSeq(subsection_analysis, 1, Min(Len(subsection_analysis), MaxSubsections))

\* DocumentAnalyzer._analyze_subsections
analyze_subsections(ranked_sections, persona_profile) ==
  LET subsection_analysis ==
        AnalysisOf(ranked_sections, persona_profile, Min(Len(ranked_sections), MaxAnalyzed))
  IN SubSeq(subsection_analysis, 1, Min(Len(subsection_analysis), MaxSubsections))

\* SectionExtractor.extract_sections of a file: the sections its try block
\* builds, or nothing if an exception is raised in it
extract_sections(pdf_file) ==
  IF pdf_file.raises THEN <<>> ELSE pdf_file.sections

\* the loop over pdf_files: all_sections.extend(sections)
RECURSIVE ExtractAll(_)
ExtractAll(pdf_files) ==
  IF Len(pdf_files) = 0 THEN <<>>
  ELSE extract_sections(pdf_files[1]) \o ExtractAll(Tail(pdf_files))

NoFault == [step |-> "none", document |-> ""]

\* the scoring of a section of the document of the fault raises
ScoreRaises(all_sections, fault) ==
  /\ fault.step = "score"
  /\ \E i \in 1..Len(all_sections) : all_sections[i].document = fault.document

\* the value of the except branch of analyze_documents
ErrorResult(step) ==
  [metadata |-> [error |-> step], extracted_sections |-> <<>>, subsection_analysis |-> <<>>]

\* what a call comes to: it raised or not, the result it returned, and the
\* ranked_sections it returned the result of
Completed(result, ranked_sections) ==
  [raised |-> FALSE, result |-> result, ranked_sections |-> ranked_sections]

Failed(step) == [raised |-> TRUE, result |-> ErrorResult(step), ranked_sections |-> <<>>]

\* the body of analyze_documents without its exception handler
analyzer_catches_nothing(attempt) == attempt

\* try: ... except Exception as e: return {"metadata": {"error": str(e)},
\* "extracted_sections": [], "subsection_analysis": []}
analyzer_catches_exception(attempt) ==
  IF attempt.raised THEN Completed(attempt.result, <<>>) ELSE attempt

\* the try block of analyze_documents; an exception is raised at the step
\* of `fault` if the call gets there.  The time stamp and the processing
\* time of the metadata are left out.
AnalyzeAttempt(pdf_files, persona, job_to_be_done, nlp, fault) ==
  LET persona_profile == process_persona(persona, job_to_be_done, nlp)
      all_sections == ExtractAll(pdf_files)
      ranked_sections == rank_sections(all_sections, persona_profile)
  IN IF fault.step = "persona" THEN Failed("persona")
     ELSE IF ScoreRaises(all_sections, fault) THEN Failed("score")
     ELSE IF fault.step \in {"subsections", "metadata", "format"} THEN Failed(fault.step)
     ELSE Completed(
            [metadata |-> [persona |-> persona,
                           job_to_be_done |-> job_to_be_done,
                           documents_processed |->
                             [i \in 1..Len(pdf_files) |-> pdf_files[i].name]],
             extracted_sections |-> format_extracted_sections(ranked_sections),
             subsection_analysis |-> analyze_subsections(ranked_sections, persona_profile)],
            ranked_sections)

\* DocumentAnalyzer.analyze_documents
analyze_documents(pdf_files, persona, job_to_be_done, nlp, fault) ==
  analyzer_catches_exception(AnalyzeAttempt(pdf_files, persona, job_to_be_done, nlp, fault))

(***************************************************************************)
(* Calls of the rankers and of the analyzer on a growing batch of sections.*)
(***************************************************************************)
\* the sections of a batch that are chosen freely
MaxSections == 3

\* the section count from which on the penalty no longer grows
SaturatingCount == DiversityThreshold + MaxPenalty \div PenaltyStep

Documents == {"a.pdf", "b.pdf"}

\* what a section holds besides its place: two sections with content, of
\* different scores, and one without
SectionKinds ==
  { [title |-> <<"R", "e", "s", "u", "l", "t", "s">>, level |-> 1,
     content |-> <<"G", "e", "n", "e", " ", "s", "t", "u", "d", "y", " ", "2", "0", "2", "4", "?">>],
    [title |-> <<"M", "e", "t", "h", "o", "d", "s">>, level |-> 2,
     content |-> <<"C", "e", "l", "l", " ", "r", "e", "v", "i", "e", "w">>],
    [title |-> <<"N", "o", "t", "e", "s">>, level |-> 3, content |-> <<>>] }

\* a section with a paragraph long enough for a sub-section, one sentence of
\* which is relevant for the research request
FindingsKind ==
  [title |-> <<"F", "i", "n", "d", "i", "n", "g", "s">>, level |-> 1,
   content |-> <<"T", "h", "e", " ", "f", "i", "n", "d", "i", "n", "g", " ", "o", "f", " ", "t", "h", "e", " ", "g", "e", "n", "e", " ", "s", "t", "u", "d", "y", " ", "i", "s", " ", "i", "n", " ", "t", "h", "e", " ", "r", "e", "v", "i", "e", "w", ".", " ", "C", "e", "l", "l", "s", " ", "g", "r", "o", "w", ".">>]

\* SectionExtractor yields sections with content only: one without and one
\* with a sub-section
ExtractedKinds ==
  {kind \in SectionKinds : kind.level = 1 /\ Len(kind.content) > 0} \cup {FindingsKind}

\* the next section of a document: it is on the page after the last one
NextSection(sections, doc_name, kind) ==
  [title |-> kind.title, level |-> kind.level,
   page |-> DocumentCount(sections, doc_name) + 1,
   content |-> kind.content, document |-> doc_name,
   word_count |-> Len(split(kind.content))]

\* A batch grows freely up to MaxSections sections; a longer one grows by
\* sections like its last one, until the document has one section more
\* than `most`: than it takes for the largest penalty, or than are formatted.
Extendable(sections, doc_name, kind, most) ==
  IF Len(sections) < MaxSections THEN TRUE
  ELSE /\ sections[Len(sections)].document = doc_name
       /\ sections[Len(sections)].title = kind.title
       /\ DocumentCount(sections, doc_name) <= most

\* all_sections.extend(sections): the sections of a file follow each other
FileByFile(all_sections, doc_name) ==
  IF DocumentCount(all_sections, doc_name) = 0 THEN TRUE
  ELSE all_sections[Len(all_sections)].document = doc_name

\* the profile the sections are ranked for
RankProfile == ResearchProfile

Rankers == {"RelevanceRanker", "MLRelevanceRanker", "DocumentAnalyzer"}

\* the persona and the job of a call of analyze_documents
EmptyRequest == [persona |-> <<>>, job_to_be_done |-> <<>>]

ResearchRequest ==
  [persona |-> <<"P", "h", "D", " ", "R", "e", "s", "e", "a", "r", "c", "h", "e", "r", " ", "i", "n", " ", "B", "i", "o", "l", "o", "g", "y">>,
   job_to_be_done |-> <<"R", "e", "v", "i", "e", "w", " ", "g", "e", "n", "e", " ", "s", "t", "u", "d", "i", "e", "s">>]

\* the steps of analyze_documents at which an exception may be raised: in
\* process_persona, in the scoring of a section of one document, in
\* _analyze_subsections, in the metadata, in _format_extracted_sections
AnalyzerFaults ==
  {[step |-> s, document |-> ""] : s \in {"persona", "subsections", "metadata", "format"}}
    \cup {[step |-> "score", document |-> d] : d \in Documents}

\* the conditions of the calls of analyze_documents: the request, the files
\* whose extraction raises, the step that raises
Scenarios ==
  {[request |-> r, broken |-> {}, fault |-> NoFault] : r \in {EmptyRequest, ResearchRequest}}
    \cup {[request |-> ResearchRequest, broken |-> {d}, fault |-> NoFault] : d \in Documents}
    \cup {[request |-> ResearchRequest, broken |-> {}, fault |-> f] : f \in AnalyzerFaults}

NoScenario == [request |-> EmptyRequest, broken |-> {}, fault |-> NoFault]

NoResult == [metadata |-> <<>>, extracted_sections |-> <<>>, subsection_analysis |-> <<>>]

\* the documents of a batch, in the order of their first sections
RECURSIVE DocumentsOf(_)
DocumentsOf(sections) ==
  IF Len(sections) = 0 THEN <<>>
  ELSE LET front == DocumentsOf(SubSeq(sections, 1, Len(sections) - 1))
           document == sections[Len(sections)].document
       IN IF \E i \in 1..Len(front) : front[i] = document THEN front
          ELSE Append(front, document)

\* pdf_files: the files that hold the sections of the batch; the extraction
\* of a broken file raises
FilesOf(sections, broken) ==
  LET documents == DocumentsOf(sections)
  IN [i \in 1..Len(documents) |->
        [name |-> documents[i],
         sections |-> SelectSeq(sections, LAMBDA section : section.document = documents[i]),
         raises |-> documents[i] \in broken]]

\* no sentence model is loaded
NoAnswers == <<>>

RankIdle ==
  /\ rRanker = "RelevanceRanker"
  /\ rSections = <<>>
  /\ rRanked = <<>>
  /\ rScenario = NoScenario
  /\ rResult = NoResult
  /\ rRaised = FALSE
  /\ rCalled = FALSE
  /\ rAnswers = NoAnswers

\* RelevanceRanker.rank_sections(sections, persona_profile) on the batch
\* with one section more
RankSections ==
  /\ rRanker = "RelevanceRanker"
  /\ \E doc_name \in Documents, kind \in SectionKinds :
       /\ Extendable(rSections, doc_name, kind, SaturatingCount)
       /\ LET sections == Append(rSections, NextSection(rSections, doc_name, kind))
          IN /\ rSections' = sections
             /\ rRanked' = rank_sections(sections, RankProfile)
  /\ UNCHANGED <<rRanker, rScenario, rResult, rRaised, rCalled, rAnswers>>
  /\ UNCHANGED exceptRank

\* MLRelevanceRanker.rank_sections(sections, persona_profile) on the batch
\* with one section more; no similarity model is loaded
MlRankSections ==
  /\ rRanker = "MLRelevanceRanker"
  /\ \E doc_name \in Documents, kind \in SectionKinds :
       /\ Extendable(rSections, doc_name, kind, SaturatingCount)
       /\ LET sections == Append(rSections, NextSection(rSections, doc_name, kind))
          IN /\ rSections' = sections
             /\ rRanked' = ml_rank_sections(sections, RankProfile, ModelAbsent, ModelAbsent)
  /\ UNCHANGED <<rRanker, rScenario, rResult, rRaised, rCalled, rAnswers>>
  /\ UNCHANGED exceptRank

\* The files of the analyzer grow freely up to MaxSections sections; files
\* that hold sections of one kind only grow further, by sections of the last
\* file, until it has one section more than are formatted.
Analyzable(sections, doc_name, kind) ==
  IF Len(sections) < MaxSections THEN TRUE
  ELSE /\ \A i \in 1..Len(sections) : sections[i].title = kind.title
       /\ sections[Len(sections)].document = doc_name
       /\ DocumentCount(sections, doc_name) <= MaxFormatted

\* the batches with one section more that the files may hold
NextBatches(sections) ==
  {Append(sections, NextSection(sections, dk[1], dk[2])) :
     dk \in {c \in Documents \X ExtractedKinds :
               /\ FileByFile(sections, c[1])
               /\ Analyzable(sections, c[1], c[2])}}

\* DocumentAnalyzer.analyze_documents(pdf_files, persona, job_to_be_done) on
\* no file in the first call, or on files of which one section more is
\* extracted; no spaCy pipeline is loaded
AnalyzeDocuments ==
  /\ rRanker = "DocumentAnalyzer"
  /\ \E sections \in (IF rCalled THEN {} ELSE {rSections}) \cup NextBatches(rSections) :
       \E attempt \in {analyze_documents(FilesOf(sections, rScenario.broken),
                                         rScenario.request.persona,
                                         rScenario.request.job_to_be_done,
                                         NlpAbsent, rScenario.fault)} :
         /\ rSections' = sections
         /\ rRanked' = attempt.ranked_sections
         /\ rResult' = attempt.result
         /\ rRaised' = attempt.raised
  /\ rCalled' = TRUE
  /\ UNCHANGED <<rRanker, rScenario, rAnswers>>
  /\ UNCHANGED exceptRank
(***************************************************************************)
(* Calls of MLRelevanceRanker.rank_sections with a sentence model loaded.  *)
(***************************************************************************)
\* two sections without a word of the profile, so that their scores are
\* 70% of what the sentence model answers
PlainKinds ==
  { [title |-> <<"N", "o", "t", "e", "s">>, level |-> 3, content |-> <<>>],
    [title |-> <<"I", "t", "e", "m", "s">>, level |-> 3, content |-> <<>>] }

\* the cosine similarities of the sentence model, in hundredths
AnsweredValues == {v \in SimilarityValues : v > 0}

\* the sentence models: one answer for the text of each kind
SentenceModels ==
  [{kind.title : kind \in PlainKinds} ->
     {[kind |-> "value", value |-> v] : v \in AnsweredValues}]

\* MLRelevanceRanker.rank_sections(sections, persona_profile) on the batch
\* with one section more; the sentence model is loaded
MlRankAnswered ==
  /\ rRanker = "MLRelevanceRanker"
  /\ rAnswers # NoAnswers
  /\ \E doc_name \in Documents, kind \in PlainKinds :
       /\ Extendable(rSections, doc_name, kind, SaturatingCount)
       /\ LET sections == Append(rSections, NextSection(rSections, doc_name, kind))
          IN /\ rSections' = sections
             /\ rRanked' = ml_rank_answered(sections, RankProfile, rAnswers)
  /\ UNCHANGED <<rRanker, rScenario, rResult, rRaised, rCalled, rAnswers>>
  /\ UNCHANGED exceptRank

(***************************************************************************)
(* main.process_round1b: one run of the persona analysis on an input       *)
(* directory or an input file, with the job_config.json beside it.         *)
(***************************************************************************)
\* a JSON object and a JSON string, as json.load gives them
JsonObject(members) == [type |-> "object", members |-> members]

JsonString(value) == [type |-> "string", value |-> value]

\* {}
EmptyObject == JsonObject(<<>>)

\* value.get exists: the value is a dict
HasGet(value) == value.type = "object"

\* the text a configuration value gives for a key of a section of it
\* (job_config.get(section, {}).get(key, "")); .get on a value that is
\* not a dict raises AttributeError
config_text(job_config, section, key) ==
  LET value == Get(job_config.members, section, EmptyObject)
  IN IF ~HasGet(value) THEN [raised |-> TRUE, value |-> <<>>]
     ELSE [raised |-> FALSE, value |-> Get(value.members, key, JsonString(<<>>)).value]

\* job_config.json of the input directory: absent, not JSON, or an object
\* with or without a persona and a job
ConfigObjects ==
  {JsonObject(persona @@ job) :
     persona \in {<<>>, [persona |-> JsonObject([role |-> JsonString(ResearchRequest.persona)])]},
     job \in {<<>>,
              [job_to_be_done |-> JsonObject([task |-> JsonString(ResearchRequest.job_to_be_done)])],
              [job_to_be_done |-> EmptyObject],
              [job_to_be_done |-> JsonString(ResearchRequest.job_to_be_done)]}}

JobConfigs ==
  {[exists |-> FALSE, parses |-> FALSE, value |-> EmptyObject],
   [exists |-> TRUE, parses |-> FALSE, value |-> EmptyObject]}
    \cup {[exists |-> TRUE, parses |-> TRUE, value |-> object] : object \in ConfigObjects}

\* a file of the input directory that is neither a PDF nor a text file
Unsupported ==
  [name |-> "notes.docx", suffix |-> ".docx", sections |-> <<>>, raises |-> FALSE]

\* the documents of an input directory, with the sections they hold
InputDocuments(sections) ==
  LET files == FilesOf(sections, {})
  IN [i \in 1..Len(files) |->
        [name |-> files[i].name, suffix |-> ".pdf",
         sections |-> files[i].sections, raises |-> FALSE]]

\* the sections of the documents of an input directory
InputBatches ==
  LET one == NextBatches(<<>>)
  IN {<<>>} \cup one \cup UNION {NextBatches(sections) : sections \in one}

\* the entries of an input directory, besides job_config.json
InputDirectories ==
  UNION {{InputDocuments(sections), <<Unsupported>> \o InputDocuments(sections)} :
           sections \in InputBatches}

\* --input: a directory, or one of the files of a directory
Inputs ==
  {[is_file |-> FALSE, path |-> Unsupported, entries |-> entries, job_config |-> job_config] :
     entries \in InputDirectories, job_config \in JobConfigs}
    \cup UNION {{[is_file |-> TRUE, path |-> entries[i], entries |-> entries,
                  job_config |-> job_config] :
                   i \in 1..Len(entries), job_config \in JobConfigs} :
                entries \in {e \in InputDirectories : Len(e) <= 2}}

NoInput ==
  [is_file |-> FALSE, path |-> Unsupported, entries |-> <<>>,
   job_config |-> [exists |-> FALSE, parses |-> FALSE, value |-> EmptyObject]]

\* input_path.glob("*" + suffix)
glob(entries, suffix) == SelectSeq(entries, LAMBDA entry : entry.suffix = suffix)

\* the files process_round1b hands to the analyzer
AllFiles(input) ==
  IF input.is_file
  THEN IF input.path.suffix \in {".pdf", ".txt"} THEN <<input.path>> ELSE <<>>
  ELSE glob(input.entries, ".pdf") \o glob(input.entries, ".txt")

\* what a run leaves: the messages printed, whether analyze_documents was
\* called, challenge1b_output.json, and whether an exception left the run
NoOutput == [written |-> FALSE, content |-> NoResult]

Written(content) == [written |-> TRUE, content |-> content]

Run(printed, analyzed, output, raised) ==
  [printed |-> printed, analyzed |-> analyzed, output |-> output, raised |-> raised]

\* the try block of process_round1b and its handler; the warning about the
\* processing time is left out
AnalyzeAndSave(all_files, job_config) ==
  LET persona == config_text(job_config, "persona", "role")
      job_to_be_done == config_text(job_config, "job_to_be_done", "task")
  IN IF persona.raised \/ job_to_be_done.raised
     THEN Run(<<"Processing", "Error in persona analysis">>, FALSE, Written(NoResult), FALSE)
     ELSE LET pdf_files == [i \in 1..Len(all_files) |->
                              [name |-> all_files[i].name,
                               sections |-> all_files[i].sections,
                               raises |-> all_files[i].raises]]
              analysis == analyze_documents(pdf_files, persona.value,
                                            job_to_be_done.value, NlpAbsent, NoFault)
          IN IF analysis.raised
             THEN Run(<<"Processing", "Error in persona analysis">>, TRUE,
                      Written(NoResult), FALSE)
             ELSE Run(<<"Processing", "Completed">>, TRUE, Written(analysis.result), FALSE)

\* main.process_round1b(input_dir, output_dir)
process_round1b(input) ==
  LET all_files == AllFiles(input)
  IN IF ~input.job_config.exists
     THEN Run(<<"job_config.json not found">>, FALSE, NoOutput, FALSE)
     ELSE IF ~input.job_config.parses
     THEN Run(<<>>, FALSE, NoOutput, TRUE)
     ELSE IF Len(all_files) = 0
     THEN Run(<<"No PDF or text files found">>, FALSE, NoOutput, FALSE)
     ELSE AnalyzeAndSave(all_files, input.job_config.value)

NoRun == Run(<<>>, FALSE, NoOutput, FALSE)

MainIdle ==
  /\ mInput = NoInput
  /\ mRun = NoRun
  /\ mCalled = FALSE

\* python main.py --round 1b --input ... --output ... on an empty output
\* directory
CallProcessRound1b ==
  /\ mCalled = FALSE
  /\ \E input \in Inputs :
       /\ mInput' = input
       /\ mRun' = process_round1b(input)
  /\ mCalled' = TRUE
  /\ UNCHANGED exceptMain

\* the process has ended; the next run gets an empty output directory
ReturnProcessRound1b ==
  /\ mCalled = TRUE
  /\ mInput' = NoInput
  /\ mRun' = NoRun
  /\ mCalled' = FALSE
  /\ UNCHANGED exceptMain

(***************************************************************************)
(* DocumentAnalyzer.analyze_documents step by step: the persona, the loop  *)
(* over the files, the ranking, the result.                                *)
(***************************************************************************)
\* the most files of a batch
MaxFiles == 2

\* the most sections of a file of a batch
MaxFileSections == 2

\* the sections of a file: sections of the kinds the extractor yields, on
\* the pages 1, 2, ...
FileSections(doc_name, kinds) ==
  [i \in 1..Len(kinds) |->
     [title |-> kinds[i].title, level |-> kinds[i].level, page |-> i,
      content |-> kinds[i].content, document |-> doc_name,
      word_count |-> Len(split(kinds[i].content))]]

\* the files of one name: what the extraction of each gives
FilesNamed(doc_name, most) ==
  {[name |-> doc_name, sections |-> FileSections(doc_name, kinds), raises |-> raises] :
     kinds \in SeqsUpTo(ExtractedKinds, most), raises \in BOOLEAN}

\* pdf_files: files of different names, in any order
Batches(most_files, most_sections) ==
  UNION {{[i \in 1..k |-> choice[i]] :
            choice \in {c \in [1..k -> UNION {FilesNamed(d, most_sections) : d \in Documents}] :
                          \A i, j \in 1..k : c[i].name = c[j].name => i = j}} :
         k \in 0..most_files}

BatchFaults == {NoFault} \cup AnalyzerFaults

BatchIdle ==
  /\ aFiles = <<>>
  /\ aFault = NoFault
  /\ aPc = "idle"
  /\ aProfile = NoProfile
  /\ aNext = 1
  /\ aAll = <<>>
  /\ aExtracted = <<>>
  /\ aRankInputs = <<>>
  /\ aRanked = <<>>
  /\ aResult = NoResult

\* the for loop over pdf_files has made a pass, if there is one to make
loop_started(pdf_files, next) == next > 1 \/ Len(pdf_files) = 0

\* the for loop over pdf_files has ended
loop_ended(pdf_files, next) == next > Len(pdf_files)

\* analyze_documents(pdf_files, persona, job_to_be_done) is called and
\* processes the persona; an exception there ends the call
CallAnalyzeDocuments ==
  /\ aPc = "idle"
  /\ \E fault \in BatchFaults :
       \E pdf_files \in Batches(MaxFiles, MaxFileSections) :
         /\ aFiles' = pdf_files
         /\ aFault' = fault
         /\ IF fault.step = "persona"
            THEN /\ aPc' = "done"
                 /\ aProfile' = NoProfile
                 /\ aResult' = ErrorResult("persona")
            ELSE /\ aPc' = "extract"
                 /\ aProfile' = process_persona(ResearchRequest.persona,
                                                ResearchRequest.job_to_be_done, NlpAbsent)
                 /\ aResult' = NoResult
  /\ aNext' = 1
  /\ aAll' = <<>>
  /\ aExtracted' = <<>>
  /\ aRankInputs' = <<>>
  /\ aRanked' = <<>>
  /\ UNCHANGED exceptBatch

\* one pass of the loop: sections = extract_sections(str(pdf_file));
\* all_sections.extend(sections)
ExtractNextFile ==
  /\ aPc = "extract"
  /\ ~loop_ended(aFiles, aNext)
  /\ aAll' = aAll \o extract_sections(aFiles[aNext])
  /\ aExtracted' = Append(aExtracted, aFiles[aNext].name)
  /\ aNext' = aNext + 1
  /\ UNCHANGED <<aFiles, aFault, aPc, aProfile, aRankInputs, aRanked, aResult>>
  /\ UNCHANGED exceptBatch

\* ranked_sections = self.relevance_ranker.rank_sections(all_sections,
\* persona_profile); an exception in the scoring of a section ends the call
RankAllSections ==
  /\ aPc = "extract"
  /\ loop_ended(aFiles, aNext)
  /\ aRankInputs' = Append(aRankInputs, aAll)
  /\ IF ScoreRaises(aAll, aFault)
     THEN /\ aPc' = "done"
          /\ aRanked' = <<>>
          /\ aResult' = ErrorResult("score")
     ELSE /\ aPc' = "analyze"
          /\ aRanked' = rank_sections(aAll, aProfile)
          /\ aResult' = NoResult
  /\ UNCHANGED <<aFiles, aFault, aProfile, aNext, aAll, aExtracted>>
  /\ UNCHANGED exceptBatch

\* the sub-section analysis and the result; an exception there gives the
\* result of the handler
BuildResult ==
  /\ aPc = "analyze"
  /\ aPc' = "done"
  /\ aResult' =
       IF aFault.step \in {"subsections", "metadata", "format"}
       THEN ErrorResult(aFault.step)
       ELSE [metadata |-> [persona |-> ResearchRequest.persona,
                           job_to_be_done |-> ResearchRequest.job_to_be_done,
                           documents_processed |->
                             [i \in 1..Len(aFiles) |-> aFiles[i].name]],
             extracted_sections |-> format_extracted_sections(aRanked),
             subsection_analysis |-> analyze_subsections(aRanked, aProfile)]
  /\ UNCHANGED <<aFiles, aFault, aProfile, aNext, aAll, aExtracted, aRankInputs, aRanked>>
  /\ UNCHANGED exceptBatch

\* the caller has taken the result
ReturnAnalyzeDocuments ==
  /\ aPc = "done"
  /\ aFiles' = <<>>
  /\ aFault' = NoFault
  /\ aPc' = "idle"
  /\ aProfile' = NoProfile
  /\ aNext' = 1
  /\ aAll' = <<>>
  /\ aExtracted' = <<>>
  /\ aRankInputs' = <<>>
  /\ aRanked' = <<>>
  /\ aResult' = NoResult
  /\ UNCHANGED exceptBatch
(***************************************************************************)
(* Calls of DocumentAnalyzer._refine_subsection_text.                      *)
(***************************************************************************)
\* the most sentences of a content
MaxContentSentences == 4

\* the sentences of the contents: for the research profile they score 0.4,
\* 0.7, 0.0, 0.3 and, too short to be scored, 0.2
RefineSentences ==
  { <<"T", "h", "e", " ", "f", "i", "n", "d", "i", "n", "g", " ", "o", "f",
      " ", "t", "h", "e", " ", "g", "e", "n", "e", " ", "s", "t", "u", "d",
      "y">>,
    <<"W", "e", " ", "r", "e", "v", "i", "e", "w", " ", "t", "h", "e", " ",
      "g", "e", "n", "e", " ", "s", "t", "u", "d", "y", " ", "r", "e", "s",
      "u", "l", "t">>,
    <<"C", "e", "l", "l", "s", " ", "g", "r", "o", "w", " ", "i", "n", " ",
      "t", "h", "e", " ", "d", "i", "s", "h", "e", "s", " ", "h", "e", "r",
      "e">>,
    <<"A", " ", "r", "e", "v", "i", "e", "w", " ", "o", "f", " ", "a", "l",
      "l", " ", "t", "h", "e", " ", "c", "e", "l", "l", "s", " ", "h", "e",
      "r", "e">>,
    <<"A", " ", "s", "h", "o", "r", "t", " ", "g", "e", "n", "e">> }

\* the contents: sentences joined by '. ', with a period at the end or not
RefineContents(most) ==
  UNION {{JoinWith(sentences, SentenceBreak) \o ending :
            sentences \in [1..k -> RefineSentences], ending \in {<<>>, <<".">>}} :
         k \in 0..most}

RefineProfiles == {ResearchProfile, BareProfile}

RefineIdle ==
  /\ fContent = <<>>
  /\ fProfile = BareProfile
  /\ fRefined = <<>>
  /\ fCalled = FALSE

\* DocumentAnalyzer._refine_subsection_text(content, persona_profile)
CallRefineSubsectionText ==
  /\ fCalled = FALSE
  /\ \E content \in RefineContents(MaxContentSentences), persona_profile \in RefineProfiles :
       /\ fContent' = content
       /\ fProfile' = persona_profile
       /\ fRefined' = refine_subsection_text(content, persona_profile)
  /\ fCalled' = TRUE
  /\ UNCHANGED exceptRefine

\* the analyzer has stored the refined text
ReturnRefineSubsectionText ==
  /\ fCalled = TRUE
  /\ fContent' = <<>>
  /\ fProfile' = BareProfile
  /\ fRefined' = <<>>
  /\ fCalled' = FALSE
  /\ UNCHANGED exceptRefine
(***************************************************************************)
(* The specifications.                                                     *)
(***************************************************************************)
\* TextProcessor.__init__: the classifier is loaded, or loading it failed
InitHeading ==
  /\ classifier \in BOOLEAN
  /\ HeadingIdle
  /\ PersonaIdle
  /\ pymupdf = TRUE
  /\ OutlineIdle
  /\ BuilderIdle
  /\ ScoreIdle
  /\ RankIdle
  /\ MainIdle
  /\ SectionsIdle
  /\ BatchIdle
  /\ ProcessorIdle
  /\ RefineIdle

NextHeading == CallIsHeadingMl \/ ReturnIsHeadingMl

SpecHeading == InitHeading /\ [][NextHeading]_vars

\* PersonaProcessor.__init__
InitPersona ==
  /\ classifier = FALSE
  /\ HeadingIdle
  /\ PersonaIdle
  /\ pymupdf = TRUE
  /\ OutlineIdle
  /\ BuilderIdle
  /\ ScoreIdle
  /\ RankIdle
  /\ MainIdle
  /\ SectionsIdle
  /\ BatchIdle
  /\ ProcessorIdle
  /\ RefineIdle

NextPersona == CallProcessPersona \/ ReturnProcessPersona

SpecPersona == InitPersona /\ [][NextPersona]_vars


\* the import of fitz succeeded or failed; the classifier is loaded or not
InitOutline ==
  /\ classifier \in BOOLEAN
  /\ pymupdf \in BOOLEAN
  /\ HeadingIdle
  /\ PersonaIdle
  /\ OutlineIdle
  /\ BuilderIdle
  /\ ScoreIdle
  /\ RankIdle
  /\ MainIdle
  /\ SectionsIdle
  /\ BatchIdle
  /\ ProcessorIdle
  /\ RefineIdle

NextOutline == CallExtractOutline \/ CallMlExtractOutline \/ ReturnExtractOutline

SpecOutline == InitOutline /\ [][NextOutline]_vars

InitBuilder ==
  /\ classifier = FALSE
  /\ pymupdf = TRUE
  /\ HeadingIdle
  /\ PersonaIdle
  /\ OutlineIdle
  /\ BuilderIdle
  /\ ScoreIdle
  /\ RankIdle
  /\ MainIdle
  /\ SectionsIdle
  /\ BatchIdle
  /\ ProcessorIdle
  /\ RefineIdle

NextBuilder ==
  CallBuildOutlineStructure \/ CallCreateHierarchicalStructure \/ ReturnBuilder

SpecBuilder == InitBuilder /\ [][NextBuilder]_vars

InitScore ==
  /\ classifier = FALSE
  /\ pymupdf = TRUE
  /\ HeadingIdle
  /\ PersonaIdle
  /\ OutlineIdle
  /\ BuilderIdle
  /\ ScoreIdle
  /\ RankIdle
  /\ MainIdle
  /\ SectionsIdle
  /\ BatchIdle
  /\ ProcessorIdle
  /\ RefineIdle

NextScore ==
  CallCalculateRelevanceScore \/ CallCalculateMlRelevanceScore \/ ReturnScore

SpecScore == InitScore /\ [][NextScore]_vars

\* a RelevanceRanker, an MLRelevanceRanker or a DocumentAnalyzer is built;
\* no section has been extracted yet
InitRank ==
  /\ classifier = FALSE
  /\ pymupdf = TRUE
  /\ HeadingIdle
  /\ PersonaIdle
  /\ OutlineIdle
  /\ BuilderIdle
  /\ ScoreIdle
  /\ rRanker \in Rankers
  /\ rSections = <<>>
  /\ rRanked = <<>>
  /\ rScenario \in (IF rRanker = "DocumentAnalyzer" THEN Scenarios ELSE {NoScenario})
  /\ rResult = NoResult
  /\ rRaised = FALSE
  /\ rCalled = FALSE
  /\ rAnswers = NoAnswers
  /\ MainIdle
  /\ SectionsIdle
  /\ BatchIdle
  /\ ProcessorIdle
  /\ RefineIdle

NextRank == RankSections \/ MlRankSections \/ AnalyzeDocuments

SpecRank == InitRank /\ [][NextRank]_vars

\* an MLRelevanceRanker whose text processor loaded a sentence model; no
\* section has been extracted yet
InitDiversity ==
  /\ classifier = FALSE
  /\ pymupdf = TRUE
  /\ HeadingIdle
  /\ PersonaIdle
  /\ OutlineIdle
  /\ BuilderIdle
  /\ ScoreIdle
  /\ rRanker = "MLRelevanceRanker"
  /\ rSections = <<>>
  /\ rRanked = <<>>
  /\ rScenario = NoScenario
  /\ rResult = NoResult
  /\ rRaised = FALSE
  /\ rCalled = FALSE
  /\ rAnswers \in SentenceModels
  /\ MainIdle
  /\ SectionsIdle
  /\ BatchIdle
  /\ ProcessorIdle
  /\ RefineIdle

NextDiversity == MlRankAnswered

SpecDiversity == InitDiversity /\ [][NextDiversity]_vars

\* a process that runs round 1B has started
InitMain ==
  /\ classifier = FALSE
  /\ pymupdf = TRUE
  /\ HeadingIdle
  /\ PersonaIdle
  /\ OutlineIdle
  /\ BuilderIdle
  /\ ScoreIdle
  /\ RankIdle
  /\ MainIdle
  /\ SectionsIdle
  /\ BatchIdle
  /\ ProcessorIdle
  /\ RefineIdle

NextMain == CallProcessRound1b \/ ReturnProcessRound1b

SpecMain == InitMain /\ [][NextMain]_vars

\* a SectionExtractor has been made; the import of fitz succeeded or failed
InitSections ==
  /\ classifier = FALSE
  /\ pymupdf \in BOOLEAN
  /\ HeadingIdle
  /\ PersonaIdle
  /\ OutlineIdle
  /\ BuilderIdle
  /\ ScoreIdle
  /\ RankIdle
  /\ MainIdle
  /\ SectionsIdle
  /\ BatchIdle
  /\ ProcessorIdle
  /\ RefineIdle

NextSections == CallExtractSections \/ ReturnExtractSections

SpecSections == InitSections /\ [][NextSections]_vars

\* a DocumentAnalyzer has been made
InitBatch ==
  /\ classifier = FALSE
  /\ pymupdf = TRUE
  /\ HeadingIdle
  /\ PersonaIdle
  /\ OutlineIdle
  /\ BuilderIdle
  /\ ScoreIdle
  /\ RankIdle
  /\ MainIdle
  /\ SectionsIdle
  /\ BatchIdle
  /\ ProcessorIdle
  /\ RefineIdle

NextBatch ==
  \/ CallAnalyzeDocuments
  \/ ExtractNextFile
  \/ RankAllSections
  \/ BuildResult
  \/ ReturnAnalyzeDocuments

SpecBatch == InitBatch /\ [][NextBatch]_vars

\* a TextProcessor is about to be constructed: self.nlp, self.classifier and
\* self.sentence_model are None
InitProcessor ==
  /\ classifier = FALSE
  /\ pymupdf = TRUE
  /\ HeadingIdle
  /\ PersonaIdle
  /\ OutlineIdle
  /\ BuilderIdle
  /\ ScoreIdle
  /\ RankIdle
  /\ MainIdle
  /\ SectionsIdle
  /\ BatchIdle
  /\ tImports = NoImports
  /\ tLoads = NoLoads
  /\ tPc = "new"
  /\ tNlp = FALSE
  /\ tSentenceModel = FALSE
  /\ tCall = NoCall
  /\ RefineIdle

NextProcessor ==
  \/ ConstructTextProcessor
  \/ UseTextProcessor
  \/ ProcessorIsHeadingMl
  \/ ProcessorReturnIsHeadingMl
  \/ CallCalculateTextSimilarity
  \/ ReturnCalculateTextSimilarity

SpecProcessor == InitProcessor /\ [][NextProcessor]_vars

\* a DocumentAnalyzer refines the text of sub-sections
InitRefine ==
  /\ classifier = FALSE
  /\ pymupdf = TRUE
  /\ HeadingIdle
  /\ PersonaIdle
  /\ OutlineIdle
  /\ BuilderIdle
  /\ ScoreIdle
  /\ RankIdle
  /\ MainIdle
  /\ SectionsIdle
  /\ BatchIdle
  /\ ProcessorIdle
  /\ RefineIdle

NextRefine == CallRefineSubsectionText \/ ReturnRefineSubsectionText

SpecRefine == InitRefine /\ [][NextRefine]_vars
(***************************************************************************)
(* Claims about the ranking of the sections.                               *)
(***************************************************************************)
\* the section of the batch a ranked section is the copy of
Original(ranked_section) ==
  [k \in DOMAIN ranked_section \ {"relevance_score", "importance_rank"} |->
     ranked_section[k]]

\* the place of a ranked section in the batch
InputPlace(sections, ranked_section) ==
  CHOOSE i \in 1..Len(sections) : sections[i] = Original(ranked_section)

\* the relevance_score a ranking gives the section of a document's page
ScoreIn(ranked, section) ==
  LET at == CHOOSE j \in 1..Len(ranked) : Original(ranked[j]) = section
  IN ranked[at].relevance_score

\* the score of a section before the diversity loop
Unpenalised(ranked_section) ==
  calculate_ml_relevance_score(Original(ranked_section), RankProfile,
                               ModelAbsent, ModelAbsent).score

\* C5: with the scores before the penalty fixed, one more section of a
\* document that already has c >= 3 sections never raises the penalised
\* score of that document's sections, and lowers it when the score is
\* positive and the penalty is not yet at its cap of 50% (c < 8); the scores
\* of the other documents with at most 3 sections stay as they are.
C5_PenaltyMonotonic ==
  [][(rRanker = "MLRelevanceRanker" /\ Len(rSections') = Len(rSections) + 1) =>
       LET document == rSections'[Len(rSections')].document
           c == DocumentCount(rSections, document)
       IN c >= 3 =>
            \A i \in 1..Len(rSections) :
              LET before == ScoreIn(rRanked, rSections[i])
                  after == ScoreIn(rRanked', rSections[i])
              IN /\ rSections[i].document = document =>
                      /\ after <= before
                      /\ (before > 0 /\ c < 8) => after < before
                 /\ (rSections[i].document # document
                       /\ DocumentCount(rSections, rSections[i].document) <= 3) =>
                      after = before]_vars

\* C5: a document has gone from 4 to 5 sections of positive score, next to
\* a section of positive score of another document
C5_Witness ==
  /\ rRanker = "MLRelevanceRanker"
  /\ DocumentCount(rSections, "a.pdf") = 5
  /\ rSections[Len(rSections)].document = "a.pdf"
  /\ \E j \in 1..Len(rRanked) :
       rRanked[j].document = "a.pdf" /\ rRanked[j].relevance_score > 0
  /\ \E j \in 1..Len(rRanked) :
       rRanked[j].document = "b.pdf" /\ rRanked[j].relevance_score > 0

\* C6: MLRelevanceRanker multiplies the score of every section of a document
\* with count > 3 sections by 1 - min(0.10 * (count - 3), 0.50) and leaves
\* the scores of the other sections; with 6 sections the factor is 0.70, and
\* no score falls below half of what it was.  (Scores after the penalty are
\* in hundredths of the unit of the scores before it.)
C6_PenaltyFactor ==
  rRanker = "MLRelevanceRanker" =>
    \A j \in 1..Len(rRanked) :
      LET doc_count == DocumentCount(rSections, rRanked[j].document)
          score == Unpenalised(rRanked[j])
          tenths == IF doc_count - 3 < 5 THEN doc_count - 3 ELSE 5
      IN /\ doc_count > 3 => rRanked[j].relevance_score = score * (100 - 10 * tenths)
         /\ doc_count <= 3 => rRanked[j].relevance_score = score * 100
         /\ doc_count = 6 => rRanked[j].relevance_score = score * 70
         /\ rRanked[j].relevance_score >= score * 50

\* C6: a document with 9 sections, one of which had a positive score and
\* has lost exactly half of it
C6_Witness ==
  /\ rRanker = "MLRelevanceRanker"
  /\ DocumentCount(rSections, "a.pdf") = 9
  /\ \E j \in 1..Len(rRanked) :
       /\ rRanked[j].document = "a.pdf"
       /\ Unpenalised(rRanked[j]) > 0
       /\ rRanked[j].relevance_score = Unpenalised(rRanked[j]) * 50

\* C7: in the result of analyze_documents the sections are in the order of
\* their penalised scores: no section is ranked behind one whose score,
\* after the penalty of its document, is smaller.
C7_DiversityApplied ==
  rRanker = "DocumentAnalyzer" =>
    \A i, j \in 1..Len(rRanked) :
      i < j =>
        Penalised(rRanked[i].relevance_score,
                  DocumentCount(rSections, rRanked[i].document))
          >= Penalised(rRanked[j].relevance_score,
                       DocumentCount(rSections, rRanked[j].document))

\* the ranked sections are the sections of the batch, each once
SameSections(sections, ranked) ==
  /\ Len(ranked) = Len(sections)
  /\ \A i \in 1..Len(sections) : \E j \in 1..Len(ranked) : Original(ranked[j]) = sections[i]

\* the sections handed to rank_sections: those of the caller, or those
\* analyze_documents extracted of its files
Batch ==
  IF rRanker = "DocumentAnalyzer" THEN ExtractAll(FilesOf(rSections, rScenario.broken))
  ELSE rSections

\* rank_sections has returned and its caller kept what it returned
Ranked ==
  rRanker = "DocumentAnalyzer" =>
    /\ rCalled
    /\ "error" \notin DOMAIN rResult.metadata

\* C8: rank_sections returns every section of the batch, by relevance_score
\* from high to low, sections of equal score in the order of the batch; the
\* importance_rank values of MLRelevanceRanker and of the extracted_sections
\* of analyze_documents are 1, 2, ... in that order.
C8_StableDescendingRanks ==
  Ranked =>
    /\ SameSections(Batch, rRanked)
    /\ \A i, j \in 1..Len(rRanked) :
         i < j =>
           /\ rRanked[i].relevance_score >= rRanked[j].relevance_score
           /\ rRanked[i].relevance_score = rRanked[j].relevance_score =>
                InputPlace(Batch, rRanked[i]) < InputPlace(Batch, rRanked[j])
    /\ rRanker = "MLRelevanceRanker" =>
         \A i \in 1..Len(rRanked) : rRanked[i].importance_rank = i
    /\ rRanker = "DocumentAnalyzer" =>
         /\ Len(rResult.extracted_sections) = Min(Len(rRanked), 15)
         /\ \A i \in 1..Len(rResult.extracted_sections) :
              rResult.extracted_sections[i] =
                [document |-> rRanked[i].document,
                 page_number |-> rRanked[i].page,
                 section_title |-> rRanked[i].title,
                 importance_rank |-> i]

\* C8: a ranking that moved a section to the front and kept two sections of
\* equal score in the order of the batch
C8_Witness ==
  /\ rRanker = "RelevanceRanker"
  /\ Len(rRanked) >= 3
  /\ InputPlace(rSections, rRanked[1]) > 1
  /\ \E i \in 1..(Len(rRanked) - 1) :
       /\ rRanked[i].relevance_score = rRanked[i + 1].relevance_score
       /\ rRanked[i].relevance_score > 0
       /\ InputPlace(rSections, rRanked[i]) < InputPlace(rSections, rRanked[i + 1])


\* the score of a ranked section before the diversity loop, with the
\* sentence model of the ranker
PrePenalty(ranked_section) ==
  calculate_ml_relevance_score(Original(ranked_section), RankProfile,
                               SentenceAnswer(rAnswers, ranked_section),
                               ModelAbsent).score

\* rank_sections of an MLRelevanceRanker with a sentence model has returned
AnsweredRanking ==
  rRanker = "MLRelevanceRanker" /\ rAnswers # NoAnswers /\ Len(rRanked) > 0

\* C28: of two sections whose scores after the diversity loop are equal, the
\* one with the higher score before the loop is ranked first, and the one
\* extracted first if those scores are equal too; importance_rank is 1..N in
\* the order of the ranking.
C28_TiesKeepPrePenaltyOrder ==
  AnsweredRanking =>
    /\ \A i, j \in 1..Len(rRanked) :
         (i < j /\ rRanked[i].relevance_score = rRanked[j].relevance_score) =>
           \/ PrePenalty(rRanked[i]) > PrePenalty(rRanked[j])
           \/ /\ PrePenalty(rRanked[i]) = PrePenalty(rRanked[j])
              /\ InputPlace(rSections, rRanked[i]) < InputPlace(rSections, rRanked[j])
    /\ \A i \in 1..Len(rRanked) : rRanked[i].importance_rank = i

\* sections of equal score after the diversity loop stay in the order of
\* their extraction, whatever their scores before the loop were, and
\* importance_rank is 1..N in the order of the ranking
TiesKeepExtractionOrder ==
  AnsweredRanking =>
    /\ \A i, j \in 1..Len(rRanked) :
         (i < j /\ rRanked[i].relevance_score = rRanked[j].relevance_score) =>
           InputPlace(rSections, rRanked[i]) < InputPlace(rSections, rRanked[j])
    /\ \A i \in 1..Len(rRanked) : rRanked[i].importance_rank = i

\* a section ranked in front of one of the same score after the loop whose
\* score before the loop was higher
LowerPrePenaltyFirst ==
  /\ AnsweredRanking
  /\ \E i, j \in 1..Len(rRanked) :
       /\ i < j
       /\ rRanked[i].relevance_score = rRanked[j].relevance_score
       /\ PrePenalty(rRanked[i]) < PrePenalty(rRanked[j])
(***************************************************************************)
(* Claims about the relevance score.                                       *)
(***************************************************************************)
\* C4: the relevance score either ranker computes for a section lies in
\* [0, 1], and computing it raises no division by zero, whatever the section
\* and the profile: empty content, empty or missing keyword lists, unknown
\* role, domain or job type, any level, page and word count.
C4_ScoreInUnitInterval ==
  sCalled => /\ ~sRaised
             /\ 0 <= sScore
             /\ sScore <= ScoreScale

\* C4: a section with content has been scored for a profile with an unknown
\* role and domain and with empty keyword lists, and has a positive score
C4_Witness ==
  /\ sCalled
  /\ sRanker = "basic"
  /\ sProfile = UnknownProfile
  /\ sSection.content = RichContent
  /\ KeywordDivisors(sProfile) = {}
  /\ ~sRaised
  /\ sScore > 0


\* the four signals of the section scored, before they are weighted
Signals ==
  LET content == Get(sSection, "content", <<>>)
      title == Get(sSection, "title", <<>>)
  IN [semantic |-> calculate_semantic_score(content, title, sProfile),
      keyword |-> calculate_keyword_score(content, title, sProfile),
      structural |-> calculate_structural_score(sSection),
      quality |-> calculate_quality_score(content)]

\* the section scored by RelevanceRanker is on a page from 1 on
ScoredOnPage == sCalled /\ sRanker = "basic" /\ ~sRaised /\ Get(sSection, "page", 1) >= 1

\* C25: each of the four signals, semantic, keyword, structural and quality,
\* is within [0, 1] before it is multiplied by its weight, for every section
\* with page >= 1 and every profile; the keyword signal stays <= 1 when all
\* persona keywords, all job keywords and all success criteria match.
C25_SignalsInUnitInterval ==
  ScoredOnPage =>
    \A signal \in DOMAIN Signals : 0 <= Signals[signal] /\ Signals[signal] <= ScoreScale

\* what the program keeps of C25: the semantic, the structural and the
\* quality signal are within [0, 1], the keyword signal within [0, 1.3]
KeywordSignalBound ==
  ScoredOnPage =>
    /\ \A signal \in {"semantic", "structural", "quality"} :
         0 <= Signals[signal] /\ Signals[signal] <= ScoreScale
    /\ 0 <= Signals.keyword /\ Signals.keyword <= Percent(130)
(***************************************************************************)
(* Claims about the outline builders.                                      *)
(***************************************************************************)
NodeText(node) == IF bBuilder = "basic" THEN node.section_title ELSE node.text

\* a node is in the outline if it is in the top-level list or in the
\* subsections of a node added before it
InOutline(j) == bBuilder = "basic" => bOutline[j].parent \in 0..(j - 1)

\* C3: the builders never drop a detected heading: whatever the levels of
\* the headings (an H2 or H3 before any H1, a gap such as H1 then H3, levels
\* of 4 or more), the outline has as many nodes over all nesting levels as
\* there are headings and each heading is the text of exactly one node.
C3_NoHeadingDropped ==
  bCalled =>
    /\ Len(bOutline) = Len(bHeadings)
    /\ \A j \in 1..Len(bOutline) : InOutline(j)
    /\ \A i \in 1..Len(bHeadings) :
         Cardinality({j \in 1..Len(bOutline) : NodeText(bOutline[j]) = bHeadings[i].text}) = 1

\* C3 (witness): an H3 before any H1, then an H1 followed by a level-4
\* heading, all three in the outline of the basic builder.
C3_Witness ==
  /\ bCalled /\ bBuilder = "basic" /\ Len(bHeadings) = 3
  /\ bHeadings[1].level = 3 /\ bHeadings[2].level = 1 /\ bHeadings[3].level = 4
  /\ bHeadings[1].y = 0 /\ bHeadings[2].y = 20 /\ bHeadings[3].page_num = 2
  /\ bOutline[1].parent = 0 /\ bOutline[2].parent = 0 /\ bOutline[3].parent = 2

\* the items are in the order of the document as far as they tell: the
\* blocks of a page are read before the blocks of the next page
InPageOrder(items) ==
  \A i, j \in 1..Len(items) : i < j => items[i].page_number <= items[j].page_number

\* each item of the flat outline carries a level name, a text and a page
FlatItems ==
  \A j \in 1..Len(bOutline) :
    /\ DOMAIN bOutline[j] = {"level", "text", "page"}
    /\ bOutline[j].level \in {"H1", "H2", "H3"}

\* C18: the outline produced for serialization is a flat list in document
\* order: of two detected headings the one that occurs earlier in the
\* document is earlier in the list, whatever the confidences, and each item
\* carries level 'H1', 'H2' or 'H3', text and page.
C18_FlatDocumentOrder ==
  (bCalled /\ bBuilder = "ml" /\ InPageOrder(bHeadings)) =>
    /\ Len(bOutline) = Len(bHeadings)
    /\ \A i \in 1..Len(bHeadings) :
         bOutline[i].text = bHeadings[i].text /\ bOutline[i].page = bHeadings[i].page_number
    /\ FlatItems

\* the part of C18 the program keeps: the items are in page order and carry
\* the three keys with a level name of H1 to H3
FlatPageOrder ==
  (bCalled /\ bBuilder = "ml") =>
    /\ FlatItems
    /\ \A i, j \in 1..Len(bOutline) : i < j => bOutline[i].page <= bOutline[j].page

\* the position of the last node before the j-th that has the level, 0 if none
LastOfLevel(outline, j, level) ==
  LET before == {i \in 1..(j - 1) : outline[i].level = level}
  IN IF before = {} THEN 0 ELSE CHOOSE i \in before : \A k \in before : k <= i

\* the i-th node is open when the j-th arrives: no node between them has
\* closed it (a node closes the nodes of its own level and deeper)
Open(outline, i, j) ==
  i < j /\ \A k \in (i + 1)..(j - 1) : outline[k].level > outline[i].level

\* each child is deeper than its parent
ChildDeeperThanParent ==
  (bCalled /\ bBuilder = "basic") =>
    \A j \in 1..Len(bOutline) :
      bOutline[j].parent # 0 => bOutline[j].level > bOutline[bOutline[j].parent].level

\* C19: level gaps attach to the nearest open ancestor: a heading of level 3
\* that arrives while an H1 is open and no H2 is open under it becomes a
\* child of that H1; a heading becomes a root only when no heading of
\* strictly smaller level is open; each child is deeper than its parent.
C19_GapAttachesToAncestor ==
  (bCalled /\ bBuilder = "basic") =>
    /\ \A j \in 1..Len(bOutline) :
         LET h1 == LastOfLevel(bOutline, j, 1)
         IN (/\ bOutline[j].level = 3
             /\ h1 # 0
             /\ \A k \in (h1 + 1)..(j - 1) : bOutline[k].level # 2)
              => bOutline[j].parent = h1
    /\ \A j \in 1..Len(bOutline) :
         bOutline[j].parent = 0 =>
           \A i \in 1..(j - 1) :
             Open(bOutline, i, j) => bOutline[i].level >= bOutline[j].level
    /\ ChildDeeperThanParent

\* the nodes under `parent` (0: the top-level list) from the k-th node on,
\* parent before children, siblings in the order of their list
RECURSIVE PreOrderFrom(_, _, _)
PreOrderFrom(outline, parent, k) ==
  IF k > Len(outline) THEN <<>>
  ELSE IF outline[k].parent = parent
  THEN <<outline[k]>> \o PreOrderFrom(outline, k, k + 1) \o PreOrderFrom(outline, parent, k + 1)
  ELSE PreOrderFrom(outline, parent, k + 1)

PreOrder(outline) == PreOrderFrom(outline, 0, 1)

\* C20: the hierarchy honours page/position order: a pre-order traversal of
\* the forest (parent before children, siblings left to right) visits the
\* headings in their (page ascending, vertical position ascending) order.
C20_PreOrderIsPositionOrder ==
  (bCalled /\ bBuilder = "basic") =>
    LET visited == PreOrder(bOutline)
        sorted_headings == SortByPosition(bHeadings)
    IN /\ Len(visited) = Len(sorted_headings)
       /\ \A i \in 1..Len(visited) : visited[i].section_title = sorted_headings[i].text

\* the part of C20 the program keeps: the nodes are created in position
\* order, so the top-level list and each list of subsections are in it
ListsInPositionOrder ==
  (bCalled /\ bBuilder = "basic") =>
    LET sorted_headings == SortByPosition(bHeadings)
    IN \A j \in 1..Len(bOutline) : bOutline[j].section_title = sorted_headings[j].text

(***************************************************************************)
(* Claims about extract_outline.                                           *)
(***************************************************************************)
\* the characters of the texts of the model
TextChars == KeptChars \cup {"*", "BULLET"}

IsText(t) == DOMAIN t = 1..Len(t) /\ \A i \in 1..Len(t) : t[i] \in TextChars

IsList(l) == DOMAIN l = 1..Len(l)

\* the file is missing, of an unsupported type or without fragments, or a
\* step of the extraction raised
NothingToExtract ==
  \/ oFile = MissingFile
  \/ oPath = OtherPath
  \/ (oFile.lines = <<>> /\ oFile.fragments = <<>>)
  \/ oFault # "none"

\* C1: extract_outline of both extractors never raises: whatever the path
\* names and at whatever step an exception is raised, it returns an object
\* with a string title and a list outline, and for a missing file, an
\* unsupported type, an empty fragment list or a failed step the object is
\* exactly {title: "", outline: []}.
C1_NeverRaises ==
  oCalled =>
    /\ ~oRaised
    /\ IsText(oResult.title)
    /\ IsList(oResult.outline)
    /\ NothingToExtract => oResult = EmptyOutline

\* C1 (witness): PyMuPDF could not open the PDF, the exception was caught
\* inside extract_outline of the ML extractor and the empty outline returned.
C1_Witness ==
  /\ oCalled /\ oExtractor = "ml"
  /\ oPath = PdfPath /\ pymupdf /\ oFile = MissingFile /\ oFault = "none"
  /\ ~oRaised /\ oResult = EmptyOutline

\* C2: every node of the returned outline has a level among 1, 2, 3 (H1, H2,
\* H3), whatever the numbering depth of the detected headings.
C2_LevelCap ==
  oCalled =>
    \A i \in 1..Len(oResult.outline) :
      IF oExtractor = "basic"
      THEN oResult.outline[i].level \in {1, 2, 3}
      ELSE oResult.outline[i].level \in {"H1", "H2", "H3"}

\* the stripped texts of the blocks read of the file of the call
BlockTexts ==
  LET text_blocks == extract_document_content(oPath, oFile, pymupdf).text_blocks
  IN {strip(text_blocks[i].text) : i \in 1..Len(text_blocks)}

\* '<digits>. <Capitalised word>' with no other period
NumberedCapitalised(t) == NumberedUpper(t) /\ count(t, ".") = 1

\* C11: a fragment '<digits>. <Capitalised word>' without another period is
\* a heading of the extracted outline and has level 1 there (H1 in the
\* outline of the classifier-based extractor), on both extractors.
C11_NumberedHeadingIsLevelOne ==
  (oCalled /\ oFault = "none") =>
    \A t \in BlockTexts :
      NumberedCapitalised(t) =>
        \E i \in 1..Len(oResult.outline) :
          IF oExtractor = "basic"
          THEN oResult.outline[i].section_title = t /\ oResult.outline[i].level = 1
          ELSE oResult.outline[i].text = t /\ oResult.outline[i].level = "H1"


\* the fragments read of the file of the call
oBlocks == extract_document_content(oPath, oFile, pymupdf).text_blocks

\* the headings detected in the call, each with its level and its place: by
\* detect_headings_from_text for the rule-based extractor, by is_heading_ml
\* for the classifier-based one
TitleCandidates ==
  IF oExtractor = "basic"
  THEN LET headings == extract_document_content(oPath, oFile, pymupdf).headings
       IN {[text |-> headings[i].text, level |-> headings[i].level,
            page |-> headings[i].page_num, y |-> headings[i].y] :
             i \in 1..Len(headings)}
  ELSE {[text |-> strip(oBlocks[i].text),
         level |-> determine_heading_level_ml(
                     strip(oBlocks[i].text),
                     is_heading_ml(strip(oBlocks[i].text), classifier,
                                   AnswerFor(oAnswers, strip(oBlocks[i].text))).confidence,
                     oBlocks[i]),
         page |-> oBlocks[i].page_num, y |-> oBlocks[i].y] :
          i \in {k \in 1..Len(oBlocks) :
                   /\ Len(strip(oBlocks[k].text)) >= 3
                   /\ is_heading_ml(strip(oBlocks[k].text), classifier,
                                    AnswerFor(oAnswers, strip(oBlocks[k].text))).is_heading}}

\* no other candidate has a smaller level, or the same level at an earlier
\* (page, vertical position)
PreferredCandidate(h) ==
  \A g \in TitleCandidates :
    \/ h.level < g.level
    \/ /\ h.level = g.level
       /\ (h.page < g.page \/ (h.page = g.page /\ h.y <= g.y))

\* an outline was extracted of a file with fragments
TitleExtracted == oCalled /\ oFault = "none" /\ ~oRaised /\ Len(oBlocks) > 0

\* C29: the title is the text of the detected heading of the smallest level,
\* the earliest by (page, vertical position) among those, in whatever order
\* the headings were detected; without a detected heading it is the first
\* non-empty fragment of the document, as it is.
C29_TitleOfSmallestLevel ==
  TitleExtracted =>
    IF TitleCandidates # {}
    THEN \E h \in TitleCandidates : PreferredCandidate(h) /\ oResult.title = h.text
    ELSE oResult.title = oBlocks[1].text

\* the rule-based extractor takes the first detected heading of the smallest
\* level, in the order of the fragments, and without a heading the first
\* fragment as it is
RuleTitleFirstDetected ==
  (TitleExtracted /\ oExtractor = "basic") =>
    LET headings == extract_document_content(oPath, oFile, pymupdf).headings
    IN IF Len(headings) > 0
       THEN \E i \in 1..Len(headings) :
              /\ oResult.title = headings[i].text
              /\ \A j \in 1..Len(headings) : headings[i].level <= headings[j].level
              /\ \A j \in 1..(i - 1) : headings[j].level > headings[i].level
       ELSE oResult.title = oBlocks[1].text

\* the rule-based extractor on fragments that are read top-down, as those of
\* a text file are, gives the title of the claim
RuleTitleTopDown ==
  (TitleExtracted /\ oExtractor = "basic"
     /\ \A i, j \in 1..Len(oBlocks) :
          i < j => \/ oBlocks[i].page_num < oBlocks[j].page_num
                   \/ (oBlocks[i].page_num = oBlocks[j].page_num /\ oBlocks[i].y < oBlocks[j].y)) =>
    IF TitleCandidates # {}
    THEN \E h \in TitleCandidates : PreferredCandidate(h) /\ oResult.title = h.text
    ELSE oResult.title = oBlocks[1].text

\* the classifier-based extractor gives no title when none of the first ten
\* fragments looks like a heading
MlTitleEmpty ==
  /\ TitleExtracted /\ oExtractor = "ml"
  /\ TitleCandidates = {}
  /\ oResult.title = <<>>
(***************************************************************************)
(* Claims about SectionExtractor.extract_sections.                         *)
(***************************************************************************)
\* the outline and the fragments of the document of the call
xOutline == extract_outline(xPath, xFile, pymupdf, "none").value.outline

xBlocks == extract_document_content(xPath, xFile, pymupdf).text_blocks

\* the call took the primary path: the document has an outline
PrimaryPath == xCalled /\ Len(xBlocks) > 0 /\ Len(xOutline) > 0

\* no two nodes of the outline have the same title
DistinctTitles ==
  \A j, k \in 1..Len(xOutline) :
    xOutline[j].section_title = xOutline[k].section_title => j = k

\* the first fragment after fragment `after` that matches the title, 0 if none
TitleAt(title, after) ==
  LET found == {i \in (after + 1)..Len(xBlocks) : is_title_match(xBlocks[i].text, title)}
  IN IF found = {} THEN 0 ELSE First(found)

\* the next node of the outline at the same or a shallower level, 0 if none
NextSibling(k) ==
  LET later == {j \in (k + 1)..Len(xOutline) : xOutline[j].level <= xOutline[k].level}
  IN IF later = {} THEN 0 ELSE First(later)

\* the fragment at which the content of node k ends: the fragment matching
\* the title of the next node at the same or a shallower level, or the end
\* of the document
ContentEnd(k) ==
  LET title_at == TitleAt(xOutline[k].section_title, 0)
      next_at == IF NextSibling(k) = 0 THEN 0
                 ELSE TitleAt(xOutline[NextSibling(k)].section_title, title_at)
  IN IF next_at = 0 THEN Len(xBlocks) + 1 ELSE next_at

\* the content of node k: the fragments that follow the fragment matching its
\* title, up to the fragment at which it ends
FollowingContent(k) ==
  LET title_at == TitleAt(xOutline[k].section_title, 0)
  IN IF title_at = 0 THEN <<>>
     ELSE clean_text(join(TextsOfBlocks(SubSeq(xBlocks, title_at + 1, ContentEnd(k) - 1))))

\* the sections that carry the title, level and page of node k
SectionsOfNode(k) ==
  {i \in 1..Len(xSections) :
     /\ xSections[i].title = xOutline[k].section_title
     /\ xSections[i].level = xOutline[k].level
     /\ xSections[i].page = xOutline[k].page_number}

\* C22: on the primary path every outline node, root or nested, whose title
\* is found in the fragments and that has non-empty following content yields
\* exactly one section carrying the node's title, level and page.
C22_EveryNodeYieldsOneSection ==
  (PrimaryPath /\ DistinctTitles) =>
    \A k \in 1..Len(xOutline) :
      (TitleAt(xOutline[k].section_title, 0) # 0 /\ Len(FollowingContent(k)) > 0)
        => Cardinality(SectionsOfNode(k)) = 1

\* what the program keeps of C22: every section carries the title, level and
\* page of a node of the top-level list, and no node yields two sections
TopLevelNodesOnly ==
  (PrimaryPath /\ DistinctTitles) =>
    /\ \A i \in 1..Len(xSections) :
         \E k \in 1..Len(xOutline) : xOutline[k].parent = 0 /\ i \in SectionsOfNode(k)
    /\ \A k \in 1..Len(xOutline) : Cardinality(SectionsOfNode(k)) <= 1

\* the next node at the same or a shallower level lies on the page of node k
\* and there is body text between the two headings
BodyBeforeNextOnPage(k) ==
  /\ NextSibling(k) # 0
  /\ xOutline[NextSibling(k)].page_number = xOutline[k].page_number
  /\ Len(FollowingContent(k)) > 0

\* C23: the content of a section is made of exactly the fragments that follow
\* the fragment matching its title, up to but excluding the fragment matching
\* the title of the next outline node at the same or a shallower level, or up
\* to the end of the document; also when that next heading lies on the page
\* of the section's own heading, where the body text between the two headings
\* belongs to the first section.
C23_ContentRunsToNextSibling ==
  (PrimaryPath /\ DistinctTitles) =>
    \A k \in 1..Len(xOutline) :
      /\ \A i \in SectionsOfNode(k) : xSections[i].content = FollowingContent(k)
      /\ (xOutline[k].parent = 0 /\ BodyBeforeNextOnPage(k))
           => \E i \in SectionsOfNode(k) : xSections[i].content = FollowingContent(k)

\* what the program keeps of C23: the content of the section of the last
\* node of the top-level list runs to the end of the document when no other
\* fragment before it matches its title
LastSectionRunsToEnd ==
  (PrimaryPath /\ DistinctTitles) =>
    \A k \in 1..Len(xOutline) :
      (xOutline[k].parent = 0 /\ NextSibling(k) = 0
         /\ \A j \in (k + 1)..Len(xOutline) : xOutline[j].parent # 0)
        => \A i \in SectionsOfNode(k) :
             xBlocks[TitleAt(xOutline[k].section_title, 0)].page_num
                 >= xOutline[k].page_number
               => xSections[i].content = FollowingContent(k)
(***************************************************************************)
(* Claims about the heading classifier.                                    *)
(***************************************************************************)
\* The hard exclusions as the specification states them: a bullet marker at
\* the start, a period, comma, semicolon or colon at the end, a lower-case
\* letter at the start.
HardExcluded(t) ==
  \/ BulletStart(t)
  \/ PeriodEnd(t) \/ PunctEnd(t)
  \/ LowerStart(t)

\* C10: hard exclusions always win: a fragment that starts with a bullet
\* marker, ends with a period, comma, semicolon or colon, or starts with a
\* lower-case letter is classified (FALSE, 0.0), with the external classifier
\* available or not.
C10_ExclusionAlwaysWins ==
  (hCalled /\ HardExcluded(strip(hText))) => hResult = NotHeading


\* the call took the model-based path: the classifier is loaded and gave
\* class scores
ModelBased == classifier /\ hAnswer.kind = "score"

\* the thresholds of the decision, in hundredths
RuleThreshold == 65

ModelThreshold == 75

\* the text passes the hard exclusions of is_heading_ml
PassesExclusions(text) == Len(text) > 0 /\ ~MlExcluded(strip(text))

\* C21: for every text that passes the hard exclusions the decision agrees
\* with the returned confidence: is_heading is true exactly when the
\* confidence is at least the threshold, 0.65 on the rule-based path and
\* 0.75 on the model-based path, and the confidence is within [0, 1].
C21_DecisionAgreesWithConfidence ==
  (hCalled /\ PassesExclusions(hText)) =>
    /\ hResult.is_heading <=>
         hResult.confidence >= (IF ModelBased THEN ModelThreshold ELSE RuleThreshold)
    /\ hResult.confidence \in 0..100

\* the part of C21 the program keeps: on the rule-based path the decision
\* agrees with the returned confidence, and every confidence is in [0, 1]
RuleDecisionAgrees ==
  (hCalled /\ PassesExclusions(hText)) =>
    /\ ~ModelBased => (hResult.is_heading <=> hResult.confidence >= RuleThreshold)
    /\ hResult.confidence \in 0..100
(***************************************************************************)
(* Claims about the capabilities of a TextProcessor.                       *)
(***************************************************************************)
\* the classifier was asked in the is_heading_ml call and raised
ClassifierRaised ==
  /\ tPc = "ready" /\ hCalled /\ classifier
  /\ PassesExclusions(hText)
  /\ hAnswer.kind \in {"raise", "empty"}

\* a model was asked in the calculate_text_similarity call
Asked == tCall.called /\ Len(tCall.text1) > 0 /\ Len(tCall.text2) > 0

\* a call of the processor leaves its capabilities as they are
CapabilitiesKept ==
  tPc = "ready" =>
    /\ classifier' = classifier
    /\ tNlp' = tNlp
    /\ tSentenceModel' = tSentenceModel

BothModelsRaised ==
  /\ Asked
  /\ tCall.sentence_model.kind = "raise" /\ tCall.nlp.kind = "raise"
  /\ tCall.result > 0

\* what the loading of the models gives when each capability is on its own
LoadedAlone(imports, loads) ==
  [nlp |-> imports.spacy /\ loads.nlp # "OSError",
   classifier |-> imports.transformers /\ loads.classifier = "loaded",
   sentence_model |-> imports.sentence_transformers /\ loads.sentence_model = "loaded"]

\* C30: the availability of a capability is independent of the others: when
\* a TextProcessor is initialised, each of nlp, classifier and sentence_model
\* is available exactly when its own import and its own loading succeeded;
\* a spaCy pipeline that was loaded is still available after the
\* sentence-similarity model failed to load.
C30_CapabilitiesIndependent ==
  tPc = "constructed" =>
    /\ tNlp = LoadedAlone(tImports, tLoads).nlp
    /\ classifier = LoadedAlone(tImports, tLoads).classifier
    /\ tSentenceModel = LoadedAlone(tImports, tLoads).sentence_model

\* what the program keeps of C30: the classifier and the sentence model
\* depend on their own loading only, and so does nlp unless the loading of
\* the sentence model raised
IndependentButNlp ==
  tPc = "constructed" =>
    /\ classifier = LoadedAlone(tImports, tLoads).classifier
    /\ tSentenceModel = LoadedAlone(tImports, tLoads).sentence_model
    /\ (tImports.sentence_transformers /\ tLoads.sentence_model = "raise") => ~tNlp
    /\ ~(tImports.sentence_transformers /\ tLoads.sentence_model = "raise")
         => tNlp = LoadedAlone(tImports, tLoads).nlp
(***************************************************************************)
(* Claims about the persona profile.                                       *)
(***************************************************************************)
PersonaA == <<"P", "h", "D", " ", "R", "e", "s", "e", "a", "r", "c", "h", "e", "r", " ", "i", "n", " ", "C", "o", "m", "p", "u", "t", "a", "t", "i", "o", "n", "a", "l", " ", "B", "i", "o", "l", "o", "g", "y">>

PersonaB == <<"I", "n", "v", "e", "s", "t", "m", "e", "n", "t", " ", "A", "n", "a", "l", "y", "s", "t">>

PersonaC == <<"U", "n", "d", "e", "r", "g", "r", "a", "d", "u", "a", "t", "e", " ", "C", "h", "e", "m", "i", "s", "t", "r", "y", " ", "S", "t", "u", "d", "e", "n", "t">>

\* C9: the role is the first role of the vocabulary whose name is in the
\* lower-cased persona, otherwise the first role whose fallback pattern
\* matches, otherwise general; the domain is the first domain of the table one
\* of whose terms is in the persona, otherwise general.  The three sample
\* personas give researcher/biology, analyst/finance and student/chemistry.
C9_RoleAndDomain ==
  pCalled =>
    LET pl == lower(pPersona)
        named == {i \in 1..Len(RoleNames) : contains(pl, RoleNames[i])}
        matched == {i \in 1..Len(RoleNames) : \E alt \in RolePatterns[i] : contains(pl, alt)}
        termed == {i \in 1..Len(DomainNames) : \E term \in DomainTerms[i] : contains(pl, term)}
    IN /\ \A i \in named :
            (\A j \in named : i <= j) => pProfile.role = RoleNames[i]
       /\ named = {} =>
            \A i \in matched :
              (\A j \in matched : i <= j) => pProfile.role = RoleNames[i]
       /\ (named = {} /\ matched = {}) => pProfile.role = General
       /\ \A i \in termed :
            (\A j \in termed : i <= j) => pProfile.domain = DomainNames[i]
       /\ termed = {} => pProfile.domain = General
       /\ pPersona = PersonaA =>
            pProfile.role = RoleNames[1] /\ pProfile.domain = DomainNames[2]
       /\ pPersona = PersonaB =>
            pProfile.role = RoleNames[3] /\ pProfile.domain = DomainNames[4]
       /\ pPersona = PersonaC =>
            pProfile.role = RoleNames[2] /\ pProfile.domain = DomainNames[3]

\* C9 witness: "Investment Analyst" has been processed
C9_Witness ==
  pCalled /\ pPersona = PersonaB /\ pProfile.role = <<"a", "n", "a", "l", "y", "s", "t">> /\ pProfile.domain = <<"f", "i", "n", "a", "n", "c", "e">>


\* the words of the persona that are seniority terms
SeniorityWords(persona) ==
  LET words == split(lower(persona))
  IN {words[i] : i \in 1..Len(words)} \cap
       (ExpertTerms \cup IntermediateTerms \cup BeginnerTerms)

\* C16: a persona whose only seniority terms are beginner terms (student,
\* undergraduate, beginner, junior) gets expertise level beginner; one with
\* an expert term among its words gets expert; one without a seniority term
\* gets intermediate.
C16_ExpertiseLevel ==
  pCalled =>
    LET terms == SeniorityWords(pPersona)
    IN /\ (terms # {} /\ terms \subseteq BeginnerTerms) =>
            pProfile.expertise_level = Beginner
       /\ (terms \cap ExpertTerms # {}) => pProfile.expertise_level = Expert
       /\ terms = {} => pProfile.expertise_level = Intermediate

ProfileKeys ==
  {"raw_persona", "raw_job", "role", "domain", "expertise_level", "keywords",
   "job_type", "job_keywords", "action_words", "success_criteria"}

InList(list, x) == \E i \in 1..Len(list) : list[i] = x

\* C15: without a spaCy pipeline process_persona returns a profile with all
\* its keys in which keywords holds the frequency-ranked content words of
\* the persona text (stop words removed) and job_keywords those of the job
\* text.
C15_KeywordFallback ==
  (pCalled /\ ~pNlp.loaded) =>
    LET persona_words == content_words(pPersona, 15)
        job_words == content_words(pJob, 20)
    IN /\ DOMAIN pProfile = ProfileKeys
       /\ \A i \in 1..Len(persona_words) : InList(pProfile.keywords, persona_words[i])
       /\ \A i \in 1..Len(job_words) : InList(pProfile.job_keywords, job_words[i])
(***************************************************************************)
(* Claims about the document analyzer.                                     *)
(***************************************************************************)
\* the sections analyze_documents extracted of its files
AllSections == ExtractAll(FilesOf(rSections, rScenario.broken))

\* an exception reaches the handler of analyze_documents
StepRaises ==
  \/ rScenario.fault.step \in {"persona", "subsections", "metadata", "format"}
  \/ ScoreRaises(AllSections, rScenario.fault)

\* C12: analyze_documents never raises: for every file list, the empty one
\* included, and every persona and job, the empty strings included, it
\* returns a result with the keys metadata, extracted_sections and
\* subsection_analysis, the latter two lists; both lists are empty if a step
\* of the call raised.
C12_AnalyzerNeverRaises ==
  (rRanker = "DocumentAnalyzer" /\ rCalled) =>
    /\ ~rRaised
    /\ DOMAIN rResult = {"metadata", "extracted_sections", "subsection_analysis"}
    /\ IsList(rResult.extracted_sections)
    /\ IsList(rResult.subsection_analysis)
    /\ StepRaises =>
         /\ rResult.extracted_sections = <<>>
         /\ rResult.subsection_analysis = <<>>

\* C12: a call on two files with sections in which the scoring raised and
\* the result is the error result
C12_Witness ==
  /\ rRanker = "DocumentAnalyzer"
  /\ rCalled
  /\ ~rRaised
  /\ ScoreRaises(AllSections, rScenario.fault)
  /\ Len(DocumentsOf(AllSections)) = 2
  /\ rResult = ErrorResult("score")

\* C12: a call on no file with the empty persona and the empty job
C12_EmptyCall ==
  /\ rRanker = "DocumentAnalyzer"
  /\ rCalled
  /\ rSections = <<>>
  /\ rScenario.request = EmptyRequest
  /\ rResult.metadata.documents_processed = <<>>

\* the extracted_sections hold the section
Listed(section) ==
  \E i \in 1..Len(rResult.extracted_sections) :
    /\ rResult.extracted_sections[i].document = section.document
    /\ rResult.extracted_sections[i].page_number = section.page
    /\ rResult.extracted_sections[i].section_title = section.title

\* the extraction or the scoring raises for the document, and for no other
BadDocument(document) ==
  \/ rScenario.broken = {document}
  \/ rScenario.fault = [step |-> "score", document |-> document]

\* the sections of the files that are not of the document
SectionsBeside(document) ==
  SelectSeq(rSections, LAMBDA section : section.document # document)

\* C13: when the extraction or the scoring raises for one document of a
\* batch of two, that document contributes no section and the sections of
\* the other document are in the result (all of them, as they are fewer than
\* the result may hold).
C13_BadDocumentIsolated ==
  (rRanker = "DocumentAnalyzer" /\ rCalled /\ Len(DocumentsOf(rSections)) = 2) =>
    \A bad \in Documents :
      BadDocument(bad) =>
        LET others == SectionsBeside(bad)
        IN /\ \A i \in 1..Len(rResult.extracted_sections) :
                rResult.extracted_sections[i].document # bad
           /\ Len(others) <= MaxFormatted =>
                \A i \in 1..Len(others) : Listed(others[i])

\* the part of C13 on an extraction that raises
ExtractionIsolated ==
  (rScenario.fault = NoFault) => C13_BadDocumentIsolated

\* the entry of subsection_analysis is made of the ranked section: it has
\* its document and page, and its text, up to the final period, is in the
\* content of the section
DerivedFrom(entry, section) ==
  /\ entry.document = section.document
  /\ entry.page_number = section.page
  /\ contains(section.content, SubSeq(entry.refined_text, 1, Len(entry.refined_text) - 1))

\* C14: extracted_sections has at most 15 entries, and they are the first
\* 15 of the ranked sections in their order; subsection_analysis has at most
\* 20 entries, each made of one of the first 10 ranked sections and none of
\* a section ranked 11th or lower.
C14_TopSections ==
  (rRanker = "DocumentAnalyzer" /\ rCalled) =>
    LET extracted == rResult.extracted_sections
        analysis == rResult.subsection_analysis
    IN /\ Len(extracted) <= 15
       /\ Len(extracted) = Min(Len(rRanked), 15)
       /\ \A i \in 1..Len(extracted) :
            /\ extracted[i].document = rRanked[i].document
            /\ extracted[i].page_number = rRanked[i].page
            /\ extracted[i].section_title = rRanked[i].title
       /\ Len(analysis) <= 20
       /\ \A i \in 1..Len(analysis) :
            /\ \E k \in 1..Min(Len(rRanked), 10) : DerivedFrom(analysis[i], rRanked[k])
            /\ \A k \in 11..Len(rRanked) : ~DerivedFrom(analysis[i], rRanked[k])

\* C14: a result of more than 15 ranked sections, of which the 11th has a
\* sub-section too: 15 sections are listed and 10 sub-sections analysed
C14_Witness ==
  /\ rRanker = "DocumentAnalyzer"
  /\ rCalled
  /\ Len(rRanked) > 15
  /\ Len(rResult.extracted_sections) = 15
  /\ Len(rResult.subsection_analysis) = 10
  /\ Len(SectionAnalysis(rRanked[11],
                         process_persona(rScenario.request.persona,
                                         rScenario.request.job_to_be_done, NlpAbsent))) > 0


\* the sentences of the content of the call, stripped
fSentences ==
  LET sentences == SplitOn(fContent, SentenceBreak, 1, 1)
  IN [i \in 1..Len(sentences) |-> strip(sentences[i])]

\* the sentences longer than 20 characters that score above 0.3
Qualifying ==
  {i \in 1..Len(fSentences) :
     /\ Len(fSentences[i]) > MinSentence
     /\ above_threshold(fSentences[i], fProfile)}

\* the sentences of a set of positions, in their original order
RECURSIVE InOrder(_, _)
InOrder(positions, i) ==
  IF i > Len(fSentences) THEN <<>>
  ELSE IF i \in positions THEN <<fSentences[i]>> \o InOrder(positions, i + 1)
  ELSE InOrder(positions, i + 1)

\* the sentences joined, with a period at the end
Joined(positions) ==
  LET refined == JoinWith(InOrder(positions, 1), SentenceBreak)
  IN IF endswith(refined, ".") THEN refined ELSE Append(refined, ".")

\* the sets of at most three qualifying sentences no sentence left out of
\* which scores higher than one in it
HighestScoring ==
  {chosen \in SUBSET Qualifying :
     /\ Cardinality(chosen) = Min(Cardinality(Qualifying), MaxSentences)
     /\ \A i \in chosen, j \in Qualifying \ chosen :
          score_sentence_relevance(fSentences[i], fProfile)
            >= score_sentence_relevance(fSentences[j], fProfile)}

\* C27: the refiner returns the empty string when no sentence longer than
\* 20 characters scores above 0.3; otherwise it returns at most three
\* sentences, each longer than 20 characters and scoring above 0.3, which
\* are the three highest-scoring qualifying sentences, joined in their
\* original order, and the result ends with a period.
C27_ThreeHighestScoring ==
  (fCalled /\ Len(fContent) > 0) =>
    IF Qualifying = {} THEN fRefined = <<>>
    ELSE /\ \E chosen \in HighestScoring : fRefined = Joined(chosen)
         /\ endswith(fRefined, ".")

\* what the program keeps of C27: the result is made of the first three
\* qualifying sentences, in their original order, and ends with a period
FirstThreeQualifying ==
  (fCalled /\ Len(fContent) > 0) =>
    IF Qualifying = {} THEN fRefined = <<>>
    ELSE /\ \E chosen \in SUBSET Qualifying :
              /\ Cardinality(chosen) = Min(Cardinality(Qualifying), MaxSentences)
              /\ \A i \in chosen, j \in Qualifying \ chosen : i < j
              /\ fRefined = Joined(chosen)
         /\ endswith(fRefined, ".")
(***************************************************************************)
(* Claims about main.process_round1b.                                      *)
(***************************************************************************)
\* the configuration gives no job description: job_config.json is absent, or
\* it is an object without a job_to_be_done task
NoJobDescription(job_config) ==
  \/ ~job_config.exists
  \/ /\ job_config.parses
     /\ LET job == Get(job_config.value.members, "job_to_be_done", EmptyObject)
        IN HasGet(job) /\ "task" \notin DOMAIN job.members

\* the run printed a message about what stopped it and did not complete
ReportedAndAborted(run) ==
  /\ Len(run.printed) > 0
  /\ \A i \in 1..Len(run.printed) : run.printed[i] # "Completed"
  /\ ~run.analyzed
  /\ ~run.output.written

\* C17: a run whose configuration gives no job description (job_config.json
\* absent, or present without a job_to_be_done task) is reported and
\* aborted: analyze_documents is not called and no challenge1b_output.json
\* is written.
C17_NoJobDescriptionAborts ==
  (mCalled /\ NoJobDescription(mInput.job_config)) => ReportedAndAborted(mRun)

\* the part of C17 the program keeps: without job_config.json the run is
\* reported and aborted
AbsentConfigAborts ==
  (mCalled /\ ~mInput.job_config.exists) => ReportedAndAborted(mRun)

(***************************************************************************)
(* Claims about the order of the steps of analyze_documents.               *)
(***************************************************************************)
\* the names of pdf_files[:n]
FirstNames(pdf_files, n) == [i \in 1..n |-> pdf_files[i].name]

\* a step of the call runs the ranking
RankingStarts == Len(aRankInputs') > Len(aRankInputs)

\* a step of the call extracts the sections of a file
ExtractionRuns == Len(aExtracted') > Len(aExtracted)

\* the step-by-step run returns what analyze_documents returns
StepsGiveResult ==
  aPc = "done" =>
    aResult = analyze_documents(aFiles, ResearchRequest.persona,
                                ResearchRequest.job_to_be_done, NlpAbsent, aFault).result

\* C24: in analyze_documents the ranking starts only after the sections of
\* every document of the batch have been extracted; it runs once, over the
\* concatenation of the section lists of the documents; the documents are
\* processed one at a time in input order.
C24_RankingAfterAllExtraction ==
  /\ [][RankingStarts =>
          /\ aExtracted = FirstNames(aFiles, Len(aFiles))
          /\ aRankInputs = <<>>
          /\ aRankInputs' = <<ExtractAll(aFiles)>>]_vars
  /\ [][ExtractionRuns =>
          /\ aRankInputs = <<>>
          /\ aExtracted' = FirstNames(aFiles, Len(aExtracted) + 1)
          /\ aAll' = ExtractAll(SubSeq(aFiles, 1, Len(aExtracted) + 1))]_vars
  /\ [](aPc = "done" /\ "error" \notin DOMAIN aResult.metadata => Len(aRankInputs) = 1)

\* a call on two files both of which hold sections has returned its result
C24_Witness ==
  /\ aPc = "done"
  /\ Len(aFiles) = 2
  /\ \A i \in 1..2 : Len(extract_sections(aFiles[i])) > 0
  /\ "error" \notin DOMAIN aResult.metadata
  /\ aRankInputs = <<aAll>>
  /\ Len(aAll) > Len(aFiles[1].sections)
====
